---- MODULE Spec2Model ----
(***************************************************************************)
(* DOI Citation Manager: the DOI conversion pipeline of                    *)
(* src/core/doi_converter.py (DOIConverter), together with the constants   *)
(* of src/config.py it reads.                                              *)
(*                                                                         *)
(* Text.  A Python str is a sequence of string tokens whose concatenation  *)
(* is the str.  DOIs, user input and Content-Type values are sequences of  *)
(* single characters; messages and response bodies are sequences of        *)
(* maximal alphanumeric runs and single other characters (so "DOI not      *)
(* found" is <<"DOI", " ", "not", " ", "found">>).                          *)
(***************************************************************************)
EXTENDS Integers, Sequences, FiniteSets, TLC

VARIABLES
    pc,         \* position of the running call (see the actions)
    doi,        \* convert_doi's local `doi`: the raw argument, then the cleaned DOI
    metadata,   \* convert_doi's local `metadata` (None before it is resolved)
    citations,  \* convert_doi's local `citations` dict
    outcome,    \* how the last convert_doi call ended: its return value or its exception
    log,        \* the HTTP exchanges of the convert_doi call of the user, in order
    caller,     \* who called convert_doi: "user" (the UI) or "batch_convert"
    doi_list,   \* batch_convert's argument
    index,      \* batch_convert's loop: the number of list items taken so far
    results,    \* batch_convert's local `results`, its return value at the end
    faults,     \* the number of responses so far that were not the nominal one
    papers,     \* Storage: self.data['papers'], a dict from paper id to record
    database_file,  \* Storage: the papers in the file written by save_data
    argument,   \* Storage: the argument of the method called last
    projects,   \* Storage: self.data['projects'], a list of project records
    signals,    \* the signals emitted by the batch worker and its dialog, in order
    dialog,     \* BatchConvertDialog: "closed", "open", "converting" or "rejected"
    running,    \* the conversion threads that have been started and have not ended
    widget      \* DOIInputWidget: its text, its enabled controls, its pending timers

store_vars == <<papers, database_file, argument, projects>>

ui_vars == <<signals, dialog, running, widget>>

vars == <<pc, doi, metadata, citations, outcome, log, caller, doi_list, index, results, faults,
          papers, database_file, argument, projects, signals, dialog, running, widget>>

None == [none |-> TRUE]

\* DOIInputWidget.__init__: no thread, an empty input, every control enabled
NoThreads == [single |-> 0, batch |-> 0]

InitialWidget ==
    [text |-> <<>>, enabled |-> {"convert_btn", "batch_btn", "doi_input"}, timers |-> 0]

\* no project and no user interface: the state of the variables of the store
\* and of the widgets in the specifications that do not use them
Unused ==
    /\ projects = <<>>
    /\ signals = <<>>
    /\ dialog = "closed"
    /\ running = NoThreads
    /\ widget = InitialWidget

(***************************************************************************)
(* Bounds of the model.                                                    *)
(***************************************************************************)
\* responses other than the nominal one that the services give to one
\* convert_doi call of the user, and to one batch_convert call
MaxFaults == 2

MaxBatchFaults == 1
\* length of the list handed to batch_convert
MaxBatch == 2

(***************************************************************************)
(* Python str operations.                                                  *)
(***************************************************************************)
Whitespace == {" ", "\t", "\n"}

Digits == {"0", "1", "2", "3", "4", "5", "6", "7", "8", "9"}

UpperCase == <<"A", "B", "C", "D", "E", "F", "G", "H", "I", "J", "K", "L", "M",
               "N", "O", "P", "Q", "R", "S", "T", "U", "V", "W", "X", "Y", "Z">>

LowerCase == <<"a", "b", "c", "d", "e", "f", "g", "h", "i", "j", "k", "l", "m",
               "n", "o", "p", "q", "r", "s", "t", "u", "v", "w", "x", "y", "z">>

SetMin(S) == CHOOSE x \in S : \A y \in S : x <= y

SetMax(S) == CHOOSE x \in S : \A y \in S : x >= y

\* str.lower() of one character
LowerChar(c) ==
    IF \E i \in 1..26 : UpperCase[i] = c
    THEN LowerCase[CHOOSE i \in 1..26 : UpperCase[i] = c]
    ELSE c

\* s.lower()
Lower(s) == [i \in 1..Len(s) |-> LowerChar(s[i])]

\* s.strip()
Strip(s) ==
    LET keep == {i \in 1..Len(s) : s[i] \notin Whitespace}
    IN  IF keep = {} THEN <<>> ELSE SubSeq(s, SetMin(keep), SetMax(keep))

\* s.startswith(p)
\* In applied to the value of an expression, which is evaluated once
Bind(value, In(_)) == CHOOSE result \in {In(v) : v \in {value}} : TRUE

StartsWith(s, p) == Len(s) >= Len(p) /\ SubSeq(s, 1, Len(p)) = p

\* sub in s
Contains(s, sub) ==
    \E i \in 0..(Len(s) - Len(sub)) : SubSeq(s, i + 1, i + Len(sub)) = sub

\* s.split(c)[0] when c occurs in s, s otherwise
BeforeFirst(s, c) ==
    LET at == {i \in 1..Len(s) : s[i] = c}
    IN  IF at = {} THEN s ELSE SubSeq(s, 1, SetMin(at) - 1)

\* s.rstrip(c)
RStripChar(s, c) ==
    LET keep == {i \in 1..Len(s) : s[i] # c}
    IN  IF keep = {} THEN <<>> ELSE SubSeq(s, 1, SetMax(keep))

(***************************************************************************)
(* config.DOI_PATTERN = r"10\.\d{4,}\/[^\s\]>,;]+"                         *)
(***************************************************************************)
\* the characters the suffix class [^\s\]>,;] rejects
SuffixExcluded == Whitespace \cup {"]", ">", ",", ";"}

\* number of digits of s from position 4 on (the greedy \d{4,})
DigitRun(s) ==
    LET stop == {i \in 4..Len(s) : s[i] \notin Digits}
    IN  IF stop = {} THEN Len(s) - 3 ELSE SetMin(stop) - 4

\* re.match(DOI_PATTERN, s): the pattern matches a prefix of s
DOI_PATTERN_match(s) ==
    /\ Len(s) >= 3
    /\ SubSeq(s, 1, 3) = <<"1", "0", ".">>
    /\ LET n == DigitRun(s)
       IN  /\ n >= 4
           /\ Len(s) >= 5 + n
           /\ s[4 + n] = "/"
           /\ s[5 + n] \notin SuffixExcluded

(***************************************************************************)
(* DOIConverter.clean_doi                                                  *)
(***************************************************************************)
Raise(type, msg) == [ok |-> FALSE, type |-> type, msg |-> msg]

Return(value) == [ok |-> TRUE, value |-> value]

prefixes == <<
    <<"h","t","t","p","s",":","/","/","d","o","i",".","o","r","g","/">>,
    <<"h","t","t","p",":","/","/","d","o","i",".","o","r","g","/">>,
    <<"h","t","t","p","s",":","/","/","d","x",".","d","o","i",".","o","r","g","/">>,
    <<"h","t","t","p",":","/","/","d","x",".","d","o","i",".","o","r","g","/">>,
    <<"h","t","t","p","s",":","/","/","w","w","w",".","d","o","i",".","o","r","g","/">>,
    <<"h","t","t","p",":","/","/","w","w","w",".","d","o","i",".","o","r","g","/">>,
    <<"d","o","i",".","o","r","g","/">>,
    <<"d","x",".","d","o","i",".","o","r","g","/">>,
    <<"w","w","w",".","d","o","i",".","o","r","g","/">>,
    <<"d","o","i",":">>,
    <<"D","O","I",":">>,
    <<"d","o","i"," ">>,
    <<"D","O","I"," ">> >>

\* the loop over prefixes: the first one that matches is cut off
RemovePrefix(s, list) ==
    LET hit == {i \in 1..Len(list) : StartsWith(Lower(s), Lower(list[i]))}
    IN  IF hit = {} THEN s ELSE SubSeq(s, Len(list[SetMin(hit)]) + 1, Len(s))

M_EMPTY == <<"DOI", " ", "cannot", " ", "be", " ", "empty">>

M_INVALID_PREFIX == <<"Invalid", " ", "DOI", " ", "format", ":", " ">>

\* the steps of clean_doi before the format check
clean_doi_text(raw) ==
    RStripChar(BeforeFirst(BeforeFirst(RemovePrefix(Strip(raw), prefixes), "?"), "#"), "/")

clean_doi(raw) ==
    IF raw = <<>>
    THEN Raise("ValueError", M_EMPTY)
    ELSE LET d == clean_doi_text(raw)
         IN  IF ~DOI_PATTERN_match(d)
             THEN Raise("ValueError", M_INVALID_PREFIX \o d)
             ELSE Return(d)

(***************************************************************************)
(* The HTTP client.  session.get(url, headers=..., timeout=...) either     *)
(* returns a response or raises; response.raise_for_status() raises        *)
(* HTTPError for a status of 400 and above.  Of one exchange the model     *)
(* keeps what the code reads.                                              *)
(*   tag    "response", or the exception session.get raised: "Timeout",    *)
(*          "ConnectionError" (both requests.exceptions.RequestException,  *)
(*          carrying no response) or "RuntimeError" (an exception that is  *)
(*          no RequestException)                                           *)
(*   status response.status_code                                           *)
(*   ctype  response.headers["content-type"], <<>> when there is none      *)
(*   body   response.text for a citation; for a metadata request           *)
(*          [json |-> whether response.json() parses it, data |-> the dict *)
(*          it parses to]                                                  *)
(***************************************************************************)
Response(status, ctype, body) ==
    [tag |-> "response", status |-> status, ctype |-> ctype, body |-> body]

GetRaises(tag, body) == [tag |-> tag, status |-> 0, ctype |-> <<>>, body |-> body]

\* the exceptions of session.get that are requests.exceptions.RequestException
TransportErrors == {"Timeout", "ConnectionError"}

\* str(e) of a transport error and of the exception that is no RequestException
ErrorDetail(tag) ==
    CASE tag = "Timeout" -> <<"Read", " ", "timed", " ", "out", ".">>
      [] tag = "ConnectionError" -> <<"Connection", " ", "refused">>
      [] OTHER -> <<"internal", " ", "error">>

\* response.raise_for_status() raises HTTPError
IsHTTPError(resp) == resp.tag = "response" /\ resp.status >= 400

HTTP_NOT_FOUND == 404

HTTP_NOT_ACCEPTABLE == 406

\* the statuses of error responses: the two the code names and another one
ErrorStatuses == {HTTP_NOT_FOUND, HTTP_NOT_ACCEPTABLE, 500}

CT_JSON == <<"a","p","p","l","i","c","a","t","i","o","n","/","j","s","o","n">>

CT_CSL == <<"a","p","p","l","i","c","a","t","i","o","n","/","v","n","d",".",
            "c","i","t","a","t","i","o","n","s","t","y","l","e","s",".",
            "c","s","l","+","j","s","o","n">>

CT_CHARSET == <<";"," ","c","h","a","r","s","e","t","=","u","t","f","-","8">>

CT_HTML == <<"t","e","x","t","/","h","t","m","l">>

\* Content-Type values a server sends; <<>> is a response without the header
ContentTypes == {CT_JSON, CT_CSL, CT_JSON \o CT_CHARSET, CT_CSL \o CT_CHARSET, CT_HTML, <<>>}

(***************************************************************************)
(* JSON values.  A dict is a function from its keys; a title or            *)
(* container-title value is a list of strings or one string.               *)
(***************************************************************************)
EmptyDict == <<>>

JList(items) == [isList |-> TRUE, items |-> items]

JStr(text) == [isList |-> FALSE, items |-> <<text>>]

\* Python truthiness of a list or str value
Truthy(v) == IF v.isList THEN v.items # <<>> ELSE v.items[1] # <<>>

\* v[0] if isinstance(v, list) else v
FirstOrScalar(v) == v.items[1]

TitleText == <<"T">>

JournalText == <<"J">>

\* CrossRef works for a DOI: all fields as lists, fields as scalars, no fields
Works(d) ==
    { ("title" :> JList(<<TitleText>>)) @@ ("container-title" :> JList(<<JournalText>>))
        @@ ("DOI" :> d),
      ("title" :> JStr(TitleText)) @@ ("container-title" :> JStr(JournalText))
        @@ ("DOI" :> d),
      ("title" :> JList(<<>>)) @@ ("DOI" :> d),
      EmptyDict }

NominalWork(d) ==
    ("title" :> JList(<<TitleText>>)) @@ ("container-title" :> JList(<<JournalText>>))
        @@ ("DOI" :> d)

\* CSL-JSON documents of the DOI resolver for a DOI
CslDocs(d) ==
    { ("title" :> TitleText) @@ ("container-title" :> JStr(JournalText)) @@ ("DOI" :> d),
      EmptyDict }

NominalCsl(d) ==
    ("title" :> TitleText) @@ ("container-title" :> JStr(JournalText)) @@ ("DOI" :> d)

JsonBody(data) == [json |-> TRUE, data |-> data]

NotJsonBody == [json |-> FALSE, data |-> EmptyDict]

\* dict.get(key, default)
Get(dict, key, default) == IF key \in DOMAIN dict THEN dict[key] ELSE default

(***************************************************************************)
(* DOIConverter.normalize_crossref_metadata: the fields id, title,         *)
(* container-title and DOI (the other fields are copied with work.get and  *)
(* a default, like DOI).                                                   *)
(***************************************************************************)
normalize_crossref_metadata(work) ==
    LET title == IF "title" \in DOMAIN work /\ Truthy(work["title"])
                 THEN FirstOrScalar(work["title"])
                 ELSE <<>>
        container_title ==
                 IF "container-title" \in DOMAIN work /\ Truthy(work["container-title"])
                 THEN FirstOrScalar(work["container-title"])
                 ELSE <<>>
        d == Get(work, "DOI", <<>>)
    IN  ("id" :> d) @@ ("title" :> title)
          @@ ("container-title" :> JList(IF container_title # <<>>
                                         THEN <<container_title>> ELSE <<>>))
          @@ ("DOI" :> d)

(***************************************************************************)
(* DOIConverter.get_doi_metadata: the CrossRef request.  Its result is a   *)
(* return value, an exception, or the call of get_doi_metadata_fallback.   *)
(*                                                                         *)
(* response.json() on a body that is no JSON raises                        *)
(* requests.exceptions.JSONDecodeError, which is a RequestException since  *)
(* requests 2.27, and json.JSONDecodeError (a ValueError) before: the      *)
(* installed requests decides (json_error_is_request_exception).           *)
(***************************************************************************)
CallFallback == [ok |-> FALSE, type |-> "RequestException", msg |-> <<>>]

JSON_ERROR == <<"Expecting", " ", "value", ":", " ", "line", " ", "1", " ",
                "column", " ", "1", " ", "(", "char", " ", "0", ")">>

KEY_ERROR == <<"'", "message", "'">>

\* get_doi_metadata whose except clause takes the HTTPError only: a timeout
\* and a connection error leave it
get_doi_metadata_HTTPErrorOnly(resp, json_error_is_request_exception) ==
    CASE resp.tag \in TransportErrors -> Raise(resp.tag, ErrorDetail(resp.tag))
      [] resp.tag = "RuntimeError" -> Raise("RuntimeError", ErrorDetail(resp.tag))
      [] IsHTTPError(resp) -> CallFallback
      [] ~resp.body.json -> Raise("JSONDecodeError", JSON_ERROR)
      [] "message" \notin DOMAIN resp.body.data -> Raise("KeyError", KEY_ERROR)
      [] OTHER -> Return(normalize_crossref_metadata(resp.body.data["message"]))

get_doi_metadata(resp, json_error_is_request_exception) ==
    CASE resp.tag \in TransportErrors -> CallFallback
      [] resp.tag = "RuntimeError" -> Raise("RuntimeError", ErrorDetail(resp.tag))
      [] IsHTTPError(resp) -> CallFallback
      [] ~resp.body.json ->
            IF json_error_is_request_exception
            THEN CallFallback
            ELSE Raise("JSONDecodeError", JSON_ERROR)
      [] "message" \notin DOMAIN resp.body.data -> Raise("KeyError", KEY_ERROR)
      [] OTHER -> Return(normalize_crossref_metadata(resp.body.data["message"]))

(***************************************************************************)
(* DOIConverter.get_doi_metadata_fallback                                  *)
(***************************************************************************)
M_TIMEOUT == <<"Request", " ", "timed", " ", "out", ".", " ", "Please", " ", "check", " ",
               "your", " ", "internet", " ", "connection", ".">>

M_CONNECT == <<"Could", " ", "not", " ", "connect", " ", "to", " ", "DOI", " ", "service",
               ".", " ", "Please", " ", "check", " ", "your", " ", "internet", " ",
               "connection", ".">>

M_NOT_FOUND == <<"DOI", " ", "not", " ", "found", ".", " ", "Please", " ", "verify", " ",
                 "the", " ", "DOI", " ", "is", " ", "correct", ".">>

M_SERVICE_PREFIX == <<"DOI", " ", "service", " ", "returned", " ", "error", ":", " ">>

M_NOT_JSON == <<"DOI", " ", "resolver", " ", "did", " ", "not", " ", "return", " ",
                "expected", " ", "JSON", " ", "format">>

M_INVALID_DATA == <<"DOI", " ", "service", " ", "returned", " ", "invalid", " ", "data",
                    " ", "format", ".">>

M_FAILED_PREFIX == <<"Failed", " ", "to", " ", "retrieve", " ", "metadata", " ", "for",
                     " ", "DOI", " ">>

UNKNOWN_TITLE == <<"Unknown", " ", "Title">>

\* a check that rejects only the response without a Content-Type
NotJsonContentType_OnlyMissing(content_type) == content_type = <<>>

\* lines 240-243: the Content-Type names neither JSON media type
NotJsonContentType(content_type) ==
    /\ ~Contains(content_type, CT_JSON)
    /\ ~Contains(content_type, CT_CSL)

\* lines 285-288: the handler of any other exception, whose str is text
OtherException(d, text) ==
    IF Contains(text, <<"JSON">>)
    THEN Raise("Exception", M_INVALID_DATA)
    ELSE Raise("Exception", M_FAILED_PREFIX \o d \o <<":", " ">> \o text)

\* lines 254-272: the record built from the CSL-JSON document
FallbackRecord(d, data) ==
    ("id" :> Get(data, "DOI", d)) @@ ("title" :> Get(data, "title", UNKNOWN_TITLE))
      @@ ("container-title" :> Get(data, "container-title", JList(<<>>)))
      @@ ("DOI" :> Get(data, "DOI", d))

\* a handler that reports every error status, 404 too, as a service error
HTTPErrorMessage_NoNotFound(status) == M_SERVICE_PREFIX \o <<ToString(status)>>

\* lines 280-284: the message for an HTTPError
HTTPErrorMessage(status) ==
    IF status = HTTP_NOT_FOUND
    THEN M_NOT_FOUND
    ELSE M_SERVICE_PREFIX \o <<ToString(status)>>

get_doi_metadata_fallback(d, resp) ==
    CASE resp.tag = "Timeout" -> Raise("Exception", M_TIMEOUT)
      [] resp.tag = "ConnectionError" -> Raise("Exception", M_CONNECT)
      [] resp.tag = "RuntimeError" -> OtherException(d, ErrorDetail(resp.tag))
      [] IsHTTPError(resp) -> Raise("Exception", HTTPErrorMessage(resp.status))
      [] NotJsonContentType(resp.ctype) -> OtherException(d, M_NOT_JSON)
      [] ~resp.body.json -> OtherException(d, JSON_ERROR)
      [] OTHER -> Return(FallbackRecord(d, resp.body.data))

(***************************************************************************)
(* config.CITATION_FORMATS, in the order of the dict, and                  *)
(* DOIConverter.clean_citation, DOIConverter.get_formatted_citation        *)
(***************************************************************************)
CITATION_FORMATS == <<"APA", "IEEE", "Nature", "Science", "Cell", "PNAS", "PLoS", "MLA",
                      "Chicago", "Harvard", "Vancouver", "BibTeX", "RIS", "JSON">>

FormatKeys == {CITATION_FORMATS[i] : i \in 1..Len(CITATION_FORMATS)}

P_NOT_AVAILABLE == <<"Citation", " ", "not", " ", "available">>

P_INVALID_BIBTEX == <<"Invalid", " ", "BibTeX", " ", "format">>

P_INVALID_RIS == <<"Invalid", " ", "RIS", " ", "format">>

P_FORMAT == <<"Format", " ">>

P_NOT_SUPPORTED == <<" ", "not", " ", "supported", " ", "by", " ", "publisher">>

P_DOI_NOT_FOUND == <<"DOI", " ", "not", " ", "found">>

P_SERVICE == <<"Service", " ", "error", " ", "(", "HTTP", " ">>

P_CONNECTION == <<"Connection", " ", "error", ":", " ">>

P_ERROR == <<"Error", ":", " ">>

M_UNSUPPORTED_PREFIX == <<"Unsupported", " ", "citation", " ", "format", ":", " ">>

RIS_MARKER == <<"TY", " ", " ", "-">>

\* re.sub(r"\s+", " ", text): every run of whitespace becomes one space
RECURSIVE CollapseWhitespace(_)
CollapseWhitespace(text) ==
    IF text = <<>> THEN <<>>
    ELSE IF text[1] \in Whitespace
         THEN IF Len(text) >= 2 /\ text[2] \in Whitespace
              THEN CollapseWhitespace(Tail(text))
              ELSE <<" ">> \o CollapseWhitespace(Tail(text))
         ELSE <<text[1]>> \o CollapseWhitespace(Tail(text))

\* html.unescape and the replacements of mis-encoded characters (lines 331-337)
\* change no text of the model: none holds an entity or such a character
clean_citation(citation, format_key) ==
    IF citation = <<>>
    THEN P_NOT_AVAILABLE
    ELSE LET cleaned == Strip(CollapseWhitespace(citation))
         IN  CASE format_key = "BibTeX" /\ ~StartsWith(cleaned, <<"@">>) -> P_INVALID_BIBTEX
               [] format_key = "RIS" /\ ~StartsWith(cleaned, RIS_MARKER) -> P_INVALID_RIS
               [] OTHER -> cleaned

\* a handler that reports every error status, 404 too, as a service error
RequestExceptionText_NoNotFound(format_key, resp) ==
    IF resp.tag = "response"
    THEN IF resp.status = HTTP_NOT_ACCEPTABLE
         THEN P_FORMAT \o <<format_key>> \o P_NOT_SUPPORTED
         ELSE P_SERVICE \o <<ToString(resp.status), ")">>
    ELSE P_CONNECTION \o ErrorDetail(resp.tag)

\* lines 313-323: the text returned for a RequestException e; e.response is
\* the response of an HTTPError and None for a transport error
RequestExceptionText(format_key, resp) ==
    IF resp.tag = "response"
    THEN IF resp.status = HTTP_NOT_ACCEPTABLE
         THEN P_FORMAT \o <<format_key>> \o P_NOT_SUPPORTED
         ELSE IF resp.status = HTTP_NOT_FOUND
              THEN P_DOI_NOT_FOUND
              ELSE P_SERVICE \o <<ToString(resp.status), ")">>
    ELSE P_CONNECTION \o ErrorDetail(resp.tag)

\* get_formatted_citation without its except clause: the RequestException leaves it
get_formatted_citation_NoExcept(format_key, resp) ==
    CASE format_key \notin FormatKeys ->
            Raise("ValueError", M_UNSUPPORTED_PREFIX \o <<format_key>>)
      [] resp.tag = "RuntimeError" -> Raise("RuntimeError", ErrorDetail(resp.tag))
      [] resp.tag \in TransportErrors -> Raise(resp.tag, ErrorDetail(resp.tag))
      [] IsHTTPError(resp) -> Raise("HTTPError", <<ToString(resp.status)>>)
      [] OTHER -> Return(clean_citation(Strip(resp.body), format_key))

get_formatted_citation(format_key, resp) ==
    CASE format_key \notin FormatKeys ->
            Raise("ValueError", M_UNSUPPORTED_PREFIX \o <<format_key>>)
      [] resp.tag = "RuntimeError" -> Raise("RuntimeError", ErrorDetail(resp.tag))
      [] resp.tag \in TransportErrors \/ IsHTTPError(resp) ->
            Return(RequestExceptionText(format_key, resp))
      [] OTHER -> Return(clean_citation(Strip(resp.body), format_key))

(***************************************************************************)
(* DOIConverter.convert_doi (lines 55-62) and batch_convert (lines         *)
(* 373-383): the records they build.  added_date, a timestamp, is left out.*)
(***************************************************************************)
paper_data(meta, cites) ==
    ("citations" :> cites) @@ ("tags" :> <<>>) @@ ("notes" :> <<>>) @@ meta

\* an error entry titled by the type of the exception instead of its message
error_entry_TitledByType(raw, exc) ==
    ("id" :> raw) @@ ("title" :> P_ERROR \o <<exc.type>>) @@ ("authors" :> <<>>)
      @@ ("DOI" :> raw) @@ ("citations" :> EmptyDict) @@ ("error" :> exc.msg)
      @@ ("error_type" :> exc.type)

error_entry(raw, exc) ==
    ("id" :> raw) @@ ("title" :> P_ERROR \o exc.msg) @@ ("authors" :> <<>>)
      @@ ("DOI" :> raw) @@ ("citations" :> EmptyDict) @@ ("error" :> exc.msg)
      @@ ("error_type" :> exc.type)

(***************************************************************************)
(* The services.  For every request the set of answers, and the nominal    *)
(* one: the work is registered and the service returns it.                 *)
(***************************************************************************)
CROSSREF_API_BASE == "https://api.crossref.org/works/"

DOI_API_BASE == "https://doi.org/"

BIBTEX_TEXT == <<"@", "misc", "\n">>

RIS_TEXT == <<"TY", " ", " ", "-", " ", "JOUR", "\n">>

STYLE_TEXT == <<"Doe", " ", " ", "2020", "\n">>

accept_header(format_key) ==
    CASE format_key = "APA" -> "text/x-bibliography; style=apa; locale=en-US"
      [] format_key = "IEEE" -> "text/x-bibliography; style=ieee; locale=en-US"
      [] format_key = "Nature" -> "text/x-bibliography; style=nature; locale=en-US"
      [] format_key = "Science" -> "text/x-bibliography; style=science; locale=en-US"
      [] format_key = "Cell" -> "text/x-bibliography; style=cell; locale=en-US"
      [] format_key = "PNAS" -> "text/x-bibliography; style=pnas; locale=en-US"
      [] format_key = "PLoS" -> "text/x-bibliography; style=plos; locale=en-US"
      [] format_key = "MLA" ->
            "text/x-bibliography; style=modern-language-association; locale=en-US"
      [] format_key = "Chicago" ->
            "text/x-bibliography; style=chicago-author-date; locale=en-US"
      [] format_key = "Harvard" ->
            "text/x-bibliography; style=harvard-cite-them-right; locale=en-US"
      [] format_key = "Vancouver" -> "text/x-bibliography; style=vancouver; locale=en-US"
      [] format_key = "BibTeX" -> "application/x-bibtex"
      [] format_key = "RIS" -> "application/x-research-info-systems"
      [] format_key = "JSON" -> "application/vnd.citationstyles.csl+json"

Request(base, accept) == [base |-> base, accept |-> accept]

PrimaryRequest == Request(CROSSREF_API_BASE, "application/json")

FallbackRequest == Request(DOI_API_BASE, "application/vnd.citationstyles.csl+json")

CitationRequest(format_key) == Request(DOI_API_BASE, accept_header(format_key))

NominalPrimary(d) == Response(200, CT_JSON, JsonBody("message" :> NominalWork(d)))

PrimaryResponses(d) ==
    {Response(200, CT_JSON, JsonBody("message" :> w)) : w \in Works(d)}
      \cup {Response(200, CT_JSON, JsonBody(EmptyDict)), Response(200, CT_HTML, NotJsonBody)}
      \cup {Response(s, CT_HTML, NotJsonBody) : s \in ErrorStatuses}
      \cup {GetRaises(t, NotJsonBody) : t \in TransportErrors \cup {"RuntimeError"}}

NominalFallback(d) == Response(200, CT_CSL, JsonBody(NominalCsl(d)))

FallbackResponses(d) ==
    {Response(200, ct, JsonBody(doc)) : ct \in ContentTypes, doc \in CslDocs(d)}
      \cup {Response(200, ct, NotJsonBody) : ct \in ContentTypes}
      \cup {Response(s, CT_HTML, NotJsonBody) : s \in ErrorStatuses}
      \cup {GetRaises(t, NotJsonBody) : t \in TransportErrors \cup {"RuntimeError"}}

NominalText(format_key) ==
    CASE format_key = "BibTeX" -> BIBTEX_TEXT
      [] format_key = "RIS" -> RIS_TEXT
      [] OTHER -> STYLE_TEXT

NominalCitation(format_key) == Response(200, <<>>, NominalText(format_key))

\* the answers to a citation request other than the nominal one
CitationFailures ==
    {Response(s, <<>>, <<>>) : s \in ErrorStatuses}
      \cup {GetRaises(t, <<>>) : t \in TransportErrors \cup {"RuntimeError"}}

\* the sets of at most n positions of CITATION_FORMATS
RECURSIVE PositionSets(_)
PositionSets(n) ==
    IF n = 0
    THEN {{}}
    ELSE LET smaller == PositionSets(n - 1)
         IN  smaller \cup {S \cup {i} : S \in smaller, i \in 1..Len(CITATION_FORMATS)}

\* the answers to the 14 citation requests of one convert_doi call, in the order
\* of CITATION_FORMATS: failures at the positions of their domain, the nominal
\* answer at the others
CitationAnswers(failures) ==
    [i \in 1..Len(CITATION_FORMATS) |->
        IF i \in DOMAIN failures THEN failures[i] ELSE NominalCitation(CITATION_FORMATS[i])]

\* The services give an answer other than the nominal one a bounded number of
\* times: MaxFaults answers to a call of the user; in a batch CrossRef, for
\* MaxBatchFaults of the DOIs, and then the resolver to the fallback request,
\* the citation requests getting the nominal answer (Spec explores the others).
Answers(responses, nominal) ==
    IF caller = "user"
    THEN IF faults < MaxFaults THEN responses ELSE {nominal}
    ELSE IF pc = "get_doi_metadata" /\ faults >= MaxBatchFaults THEN {nominal} ELSE responses

CitationBudget == IF caller = "user" THEN MaxFaults - faults ELSE 0

\* log keeps the exchanges of the call of the user
Exchange(request, resp, nominal) ==
    /\ log' = IF caller = "user"
              THEN Append(log, [request |-> request, resp |-> resp])
              ELSE log
    /\ faults' = IF resp = nominal \/ (caller # "user" /\ pc # "get_doi_metadata")
                 THEN faults
                 ELSE faults + 1

(***************************************************************************)
(* User input.                                                             *)
(***************************************************************************)
DOI_A == <<"1", "0", ".", "1", "0", "0", "0", "/", "a">>

DOI_B == <<"1", "0", ".", "1", "0", "0", "0", "0", "/", "b", ".", "c">>

Heads == { <<>>, <<" ">>, <<"d", "o", "i", ":">>, <<"D", "O", "I", ":", " ">>,
           <<"h","t","t","p","s",":","/","/","d","o","i",".","o","r","g","/">>,
           <<"x">> }

Cores == { DOI_A, <<"1", "0", ".", "1", "0", "0", "/", "a">>,
           <<"1", "0", ".", "1", "0", "0", "0", "/">>,
           <<"1", "0", ".", "1", "0", "0", "0", "/", ";", "a">>,
           <<"n", "a", "t", "u", "r", "e">>, <<>> }

Tails == { <<>>, <<"/">>, <<"?", "x">>, <<"#", "x">>, <<" ", "b">>, <<"\n">> }

Inputs == {h \o c \o t : h \in Heads, c \in Cores, t \in Tails}

\* the inputs of a batch: two DOIs (one with a prefix to clean), a string that
\* is no DOI, the empty string
BatchInputs == { DOI_A, <<"d", "o", "i", ":">> \o DOI_B, <<"n", "o", "n", "e">>, <<>> }

RECURSIVE SeqsUpTo(_, _)
SeqsUpTo(S, n) ==
    IF n = 0 THEN {<<>>}
    ELSE LET shorter == SeqsUpTo(S, n - 1)
         IN  shorter \cup {Append(q, x) : q \in {r \in shorter : Len(r) = n - 1}, x \in S}

(***************************************************************************)
(* convert_doi, one action for each of its steps between two requests.     *)
(***************************************************************************)
\* line 40: doi = self.clean_doi(doi)
Clean ==
    /\ pc = "convert_doi"
    /\ LET r == clean_doi(doi)
       IN  IF r.ok
           THEN /\ doi' = r.value
                /\ pc' = "get_doi_metadata"
                /\ UNCHANGED outcome
           ELSE /\ pc' = "raised"
                /\ outcome' = r
                /\ UNCHANGED doi
    /\ UNCHANGED <<metadata, citations, log, caller, doi_list, index, results, faults>>
    /\ UNCHANGED <<store_vars, ui_vars>>

\* a metadata step after which convert_doi goes on to the citations although
\* the resolution raised
MetadataStep_GoesOn(r) ==
    IF r.ok
    THEN /\ metadata' = r.value
         /\ pc' = "citations"
         /\ UNCHANGED outcome
    ELSE IF r.type = "RequestException"
         THEN /\ pc' = "get_doi_metadata_fallback"
              /\ UNCHANGED <<metadata, outcome>>
         ELSE /\ pc' = "citations"
              /\ UNCHANGED <<metadata, outcome>>

\* how a metadata step ends: with the metadata, in the fallback, or raising
MetadataStep(r) ==
    IF r.ok
    THEN /\ metadata' = r.value
         /\ pc' = "citations"
         /\ UNCHANGED outcome
    ELSE IF r.type = "RequestException"
         THEN /\ pc' = "get_doi_metadata_fallback"
              /\ UNCHANGED <<metadata, outcome>>
         ELSE /\ pc' = "raised"
              /\ outcome' = r
              /\ UNCHANGED metadata

\* line 43, lines 111-128: the request to CrossRef
Primary ==
    /\ pc = "get_doi_metadata"
    /\ \E resp \in Answers(PrimaryResponses(doi), NominalPrimary(doi)),
          json_error_is_request_exception \in BOOLEAN :
          /\ Exchange(PrimaryRequest, resp, NominalPrimary(doi))
          /\ MetadataStep(get_doi_metadata(resp, json_error_is_request_exception))
    /\ UNCHANGED <<doi, citations, caller, doi_list, index, results>>
    /\ UNCHANGED <<store_vars, ui_vars>>

\* line 128, lines 231-288: the request to the DOI resolver
Fallback ==
    /\ pc = "get_doi_metadata_fallback"
    /\ \E resp \in Answers(FallbackResponses(doi), NominalFallback(doi)) :
          /\ Exchange(FallbackRequest, resp, NominalFallback(doi))
          /\ MetadataStep(get_doi_metadata_fallback(doi, resp))
    /\ UNCHANGED <<doi, citations, caller, doi_list, index, results>>
    /\ UNCHANGED <<store_vars, ui_vars>>

\* a round that leaves out the key whose fetch raised
LoopBody_DropsRaised(cites, fmt_key, resp) ==
    LET r == get_formatted_citation(fmt_key, resp)
    IN  IF r.ok THEN (fmt_key :> r.value) @@ cites ELSE cites

\* a round that, when the fetch failed, starts citations again from this key
LoopBody_ResetsOnFailure(cites, fmt_key, resp) ==
    LET r == get_formatted_citation(fmt_key, resp)
        entry == fmt_key :> (IF r.ok THEN r.value ELSE P_ERROR \o r.msg)
    IN  IF resp.tag = "response" /\ ~IsHTTPError(resp)
        THEN entry @@ cites
        ELSE entry @@ [k \in DOMAIN cites |-> P_NOT_AVAILABLE]

\* lines 48-53: one round of the loop, the entry of citations for fmt_key
LoopBody(cites, fmt_key, resp) ==
    LET r == get_formatted_citation(fmt_key, resp)
    IN  (fmt_key :> (IF r.ok THEN r.value ELSE P_ERROR \o r.msg)) @@ cites

\* lines 46-53: the loop over the first n keys of CITATION_FORMATS
RECURSIVE CitationLoop(_, _)
CitationLoop(n, answers) ==
    IF n = 0
    THEN EmptyDict
    ELSE LoopBody(CitationLoop(n - 1, answers), CITATION_FORMATS[n], answers[n])

\* lines 45-64: the 14 citation requests, one after the other, then the record
\* is built and returned
Citations ==
    /\ pc = "citations"
    /\ \E S \in PositionSets(CitationBudget) : \E failures \in [S -> CitationFailures] :
          /\ citations' = CitationLoop(Len(CITATION_FORMATS), CitationAnswers(failures))
          /\ log' = IF caller = "user"
                    THEN log \o [i \in 1..Len(CITATION_FORMATS) |->
                                   [request |-> CitationRequest(CITATION_FORMATS[i]),
                                    resp |-> CitationAnswers(failures)[i]]]
                    ELSE log
          /\ faults' = faults + Cardinality(S)
    /\ outcome' = Return(paper_data(metadata, citations'))
    /\ pc' = "returned"
    /\ UNCHANGED <<doi, metadata, caller, doi_list, index, results>>
    /\ UNCHANGED <<store_vars, ui_vars>>

(***************************************************************************)
(* batch_convert                                                           *)
(***************************************************************************)
\* lines 367-369: the next doi of doi_list, convert_doi(doi) is called
BatchCall ==
    /\ caller = "batch_convert"
    /\ pc = "batch_convert"
    /\ index < Len(doi_list)
    /\ index' = index + 1
    /\ doi' = doi_list[index + 1]
    /\ pc' = "convert_doi"
    /\ metadata' = None
    /\ citations' = EmptyDict
    /\ log' = <<>>
    /\ UNCHANGED <<outcome, caller, doi_list, results, faults>>
    /\ UNCHANGED <<store_vars, ui_vars>>

\* results.insert(0, paper_data) in the place of the append
BatchAppend_Inserts ==
    /\ caller = "batch_convert"
    /\ pc = "returned"
    /\ results' = <<outcome.value>> \o results
    /\ pc' = "batch_convert"
    /\ UNCHANGED <<doi, metadata, citations, outcome, log, caller, doi_list, index, faults>>
    /\ UNCHANGED <<store_vars, ui_vars>>

\* line 370: results.append(paper_data)
BatchAppend ==
    /\ caller = "batch_convert"
    /\ pc = "returned"
    /\ results' = Append(results, outcome.value)
    /\ pc' = "batch_convert"
    /\ UNCHANGED <<doi, metadata, citations, outcome, log, caller, doi_list, index, faults>>
    /\ UNCHANGED <<store_vars, ui_vars>>

\* lines 371-383: the error entry of a doi whose conversion raised
BatchExcept ==
    /\ caller = "batch_convert"
    /\ pc = "raised"
    /\ results' = Append(results, error_entry(doi_list[index], outcome))
    /\ pc' = "batch_convert"
    /\ UNCHANGED <<doi, metadata, citations, outcome, log, caller, doi_list, index, faults>>
    /\ UNCHANGED <<store_vars, ui_vars>>

\* line 385: return results
BatchReturn ==
    /\ caller = "batch_convert"
    /\ pc = "batch_convert"
    /\ index = Len(doi_list)
    /\ pc' = "batch_returned"
    /\ UNCHANGED <<doi, metadata, citations, outcome, log, caller, doi_list, index, results, faults>>
    /\ UNCHANGED <<store_vars, ui_vars>>

(***************************************************************************)
(* Spec: the user converts one input.  SpecBatch: one batch_convert call.  *)
(***************************************************************************)
Init ==
    /\ caller = "user"
    /\ pc = "convert_doi"
    /\ doi \in Inputs
    /\ metadata = None
    /\ citations = EmptyDict
    /\ outcome = None
    /\ log = <<>>
    /\ doi_list = <<>>
    /\ index = 0
    /\ results = <<>>
    /\ faults = 0
    /\ papers = <<>>
    /\ database_file = <<>>
    /\ argument = [none |-> TRUE]
    /\ Unused

Next == Clean \/ Primary \/ Fallback \/ Citations

Spec == Init /\ [][Next]_vars

InitBatch ==
    /\ caller = "batch_convert"
    /\ pc = "batch_convert"
    /\ doi = <<>>
    /\ metadata = None
    /\ citations = EmptyDict
    /\ outcome = None
    /\ log = <<>>
    /\ doi_list \in SeqsUpTo(BatchInputs, MaxBatch)
    /\ index = 0
    /\ results = <<>>
    /\ faults = 0
    /\ papers = <<>>
    /\ database_file = <<>>
    /\ argument = [none |-> TRUE]
    /\ Unused

NextBatch ==
    \/ Clean \/ Primary \/ Fallback \/ Citations
    \/ BatchCall \/ BatchAppend \/ BatchExcept \/ BatchReturn

SpecBatch == InitBatch /\ [][NextBatch]_vars

(***************************************************************************)
(* src/utils/doi_validator.py, DOIValidator.clean_doi and                  *)
(* is_valid_doi_format                                                     *)
(***************************************************************************)
\* lines 123-139: the prefixes of DOIConverter.clean_doi and two more
DOIValidator_prefixes == prefixes \o << <<"d", "o", "i", "=">>, <<"D", "O", "I", "=">> >>

DOIValidator_clean_doi(d) ==
    IF d = <<>>
    THEN <<>>
    ELSE Strip(RStripChar(BeforeFirst(BeforeFirst(
             RemovePrefix(Strip(d), DOIValidator_prefixes), "?"), "#"), "/"))

is_valid_doi_format(d) ==
    IF d = <<>> THEN FALSE ELSE DOI_PATTERN_match(DOIValidator_clean_doi(d))

(***************************************************************************)
(* Regular expressions of DOIValidator, matched with re.IGNORECASE.  A     *)
(* position is an index of the text; 0 stands for "no match".              *)
(***************************************************************************)
\* the literal lit, given in lower case, stands at position i of s
LitAt(s, i, lit) ==
    /\ i >= 1
    /\ i + Len(lit) - 1 <= Len(s)
    /\ Lower(SubSeq(s, i, i + Len(lit) - 1)) = lit

\* the positions of s at which the literal lit stands
Occurrences(s, lit) == {i \in 1..Len(s) : LitAt(s, i, lit)}

\* the last position of the longest run, from position i on, of characters
\* that are not in stop; i - 1 when the run is empty
RunEnd(s, i, stop) ==
    LET bad == {j \in i..Len(s) : s[j] \in stop}
    IN  IF bad = {} THEN Len(s) ELSE SetMin(bad) - 1

\* the last position of the longest run of digits from position i on
DigitsEnd(s, i) ==
    LET bad == {j \in i..Len(s) : s[j] \notin Digits}
    IN  IF bad = {} THEN Len(s) ELSE SetMin(bad) - 1

\* lit at position i: the position after it
LitThen(s, i, lit) == IF i # 0 /\ LitAt(s, i, lit) THEN i + Len(lit) ELSE 0

\* [^/]+/ at position i: the position after it
SegmentThen(s, i) ==
    LET e == RunEnd(s, i, {"/"})
    IN  IF i # 0 /\ i <= Len(s) /\ e >= i /\ e + 1 <= Len(s) THEN e + 2 ELSE 0

\* \d+ at position i: the position after it
DigitsThen(s, i) ==
    LET e == DigitsEnd(s, i)
    IN  IF i # 0 /\ i <= Len(s) /\ e >= i THEN e + 1 ELSE 0

\* a group of one or more characters not in stop at position i: its last position
GroupEnd(s, i, stop) ==
    IF i # 0 /\ i <= Len(s) /\ RunEnd(s, i, stop) >= i THEN RunEnd(s, i, stop) ELSE 0

\* the result of re.search: no match, a match with group 1, a match of a
\* pattern that has no group
NoMatch == [matched |-> FALSE, groups |-> 0, group |-> <<>>]

MatchGroup(g) == [matched |-> TRUE, groups |-> 1, group |-> g]

MatchNoGroup == [matched |-> TRUE, groups |-> 0, group |-> <<>>]

\* the match at the least of the start positions
FirstMatch(s, starts, from, stop) ==
    LET good == {i \in starts : GroupEnd(s, from[i], stop) # 0}
    IN  IF good = {}
        THEN NoMatch
        ELSE MatchGroup(SubSeq(s, from[SetMin(good)], GroupEnd(s, from[SetMin(good)], stop)))

\* line 73: (?:https?://)?(?:dx\.)?doi\.org/(.+)
SearchDoiOrg(s) ==
    LET lit == <<"d", "o", "i", ".", "o", "r", "g", "/">>
        starts == Occurrences(s, lit)
    IN  FirstMatch(s, starts, [i \in starts |-> i + Len(lit)], {"\n"})

\* the Nature pattern with the path "article/" in place of "articles/"
SearchNature_Article(s) ==
    LET lit == <<"w", "w", "w", ".", "n", "a", "t", "u", "r", "e", ".", "c", "o", "m", "/", "a", "r", "t", "i", "c", "l", "e", "/">>
        starts == Occurrences(s, lit)
    IN  FirstMatch(s, starts, [i \in starts |-> i + Len(lit)], {"/", "?"})

\* line 75: (?:https?://)?www\.nature\.com/articles/([^/?]+)
SearchNature(s) ==
    LET lit == <<"w", "w", "w", ".", "n", "a", "t", "u", "r", "e", ".", "c", "o", "m", "/", "a", "r", "t", "i", "c", "l", "e", "s", "/">>
        starts == Occurrences(s, lit)
    IN  FirstMatch(s, starts, [i \in starts |-> i + Len(lit)], {"/", "?"})

\* line 77: (?:https?://)?science\.sciencemag\.org/content/[^/]+/[^/]+/[^/]+/science\.([^/?]+)
SearchScience(s) ==
    LET lit == <<"s", "c", "i", "e", "n", "c", "e", ".", "s", "c", "i", "e", "n", "c", "e", "m", "a", "g", ".", "o", "r", "g", "/", "c", "o", "n", "t", "e", "n", "t", "/">>
        starts == Occurrences(s, lit)
        after(i) == LitThen(s, SegmentThen(s, SegmentThen(s, SegmentThen(s, i + Len(lit)))),
                            <<"s", "c", "i", "e", "n", "c", "e", ".">>)
    IN  FirstMatch(s, starts, [i \in starts |-> after(i)], {"/", "?"})

\* line 79: (?:https?://)?www\.cell\.com/[^/]+/fulltext/S\d+-\d+\(\d+\)\d+-\d+
SearchCell(s) ==
    LET lit == <<"w", "w", "w", ".", "c", "e", "l", "l", ".", "c", "o", "m", "/">>
        starts == Occurrences(s, lit)
        p1(i) == LitThen(s, SegmentThen(s, i + Len(lit)), <<"f", "u", "l", "l", "t", "e", "x", "t", "/", "s">>)
        p2(i) == LitThen(s, DigitsThen(s, p1(i)), <<"-">>)
        p3(i) == LitThen(s, DigitsThen(s, p2(i)), <<"(">>)
        p4(i) == LitThen(s, DigitsThen(s, p3(i)), <<")">>)
        p5(i) == LitThen(s, DigitsThen(s, p4(i)), <<"-">>)
    IN  IF \E i \in starts : DigitsThen(s, p5(i)) # 0 THEN MatchNoGroup ELSE NoMatch

\* line 81: (?:https?://)?www\.pnas\.org/content/\d+/\d+/e(\d+)
SearchPnas(s) ==
    LET lit == <<"w", "w", "w", ".", "p", "n", "a", "s", ".", "o", "r", "g", "/", "c", "o", "n", "t", "e", "n", "t", "/">>
        starts == Occurrences(s, lit)
        p1(i) == LitThen(s, DigitsThen(s, i + Len(lit)), <<"/">>)
        p2(i) == LitThen(s, DigitsThen(s, p1(i)), <<"/", "e">>)
        good == {i \in starts : DigitsThen(s, p2(i)) # 0}
    IN  IF good = {}
        THEN NoMatch
        ELSE MatchGroup(SubSeq(s, p2(SetMin(good)), DigitsEnd(s, p2(SetMin(good)))))

\* (?:https?://)? at position i: the position after it, i when it is absent
SchemeThen(s, i) ==
    IF LitAt(s, i, <<"h", "t", "t", "p", "s", ":", "/", "/">>) THEN i + 8
    ELSE IF LitAt(s, i, <<"h", "t", "t", "p", ":", "/", "/">>) THEN i + 7 ELSE i

\* (?:sci-hub\.[^/]+/)? at position i: the position after it, i when it is absent
SciHubThen(s, i) ==
    IF LitThen(s, i, <<"s", "c", "i", "-", "h", "u", "b", ".">>) # 0 /\ SegmentThen(s, LitThen(s, i, <<"s", "c", "i", "-", "h", "u", "b", ".">>)) # 0
    THEN SegmentThen(s, LitThen(s, i, <<"s", "c", "i", "-", "h", "u", "b", ".">>))
    ELSE i

\* line 83: (?:https?://)?(?:sci-hub\.[^/]+/)?(.+), the optional parts taken
\* when the rest still leaves a character for the group
SearchSciHub(s) ==
    LET starts == {i \in 1..Len(s) : s[i] # "\n"}
        i == SetMin(starts)
        tries == << SciHubThen(s, SchemeThen(s, i)), SchemeThen(s, i), SciHubThen(s, i), i >>
        good == {k \in 1..4 : GroupEnd(s, tries[k], {"\n"}) # 0}
        from == tries[SetMin(good)]
    IN  IF starts = {} THEN NoMatch
        ELSE MatchGroup(SubSeq(s, from, GroupEnd(s, from, {"\n"})))

(***************************************************************************)
(* DOIValidator.extract_doi_from_url                                       *)
(***************************************************************************)
\* a function that returns None
ReturnNone == [ok |-> TRUE, none |-> TRUE]

IsNone(r) == "none" \in DOMAIN r

\* urllib.parse.unquote for the escapes of "/" and ":", the ones the texts of
\* the model hold
RECURSIVE unquote(_)
unquote(s) ==
    IF s = <<>> THEN <<>>
    ELSE IF LitAt(s, 1, <<"%", "2", "f">>) THEN <<"/">> \o unquote(SubSeq(s, 4, Len(s)))
    ELSE IF LitAt(s, 1, <<"%", "3", "a">>) THEN <<":">> \o unquote(SubSeq(s, 4, Len(s)))
    ELSE <<s[1]>> \o unquote(Tail(s))

\* lines 71-84, each pattern searched in url
doi_url_patterns(url) ==
    << SearchDoiOrg(url), SearchNature(url), SearchScience(url), SearchCell(url),
       SearchPnas(url), SearchSciHub(url) >>

INDEX_ERROR == <<"no", " ", "such", " ", "group">>

\* lines 86-113: the loop from the k-th pattern on; match.group(1) raises
\* IndexError for a pattern without a group
\* lines 86-113: the loop from the k-th pattern on; matches[k] is the result
\* of re.search for the k-th pattern
RECURSIVE UrlLoop(_, _, _)
UrlLoop(url, matches, k) ==
    IF k > Len(matches)
    THEN ReturnNone
    ELSE LET match == matches[k]
             potential_doi ==
                 CASE Contains(url, <<"n", "a", "t", "u", "r", "e", ".", "c", "o", "m">>) /\ match.group # <<>> ->
                          <<"1", "0", ".", "1", "0", "3", "8", "/">> \o match.group
                   [] Contains(url, <<"s", "c", "i", "e", "n", "c", "e", "m", "a", "g", ".", "o", "r", "g">>) /\ match.group # <<>> ->
                          <<"1", "0", ".", "1", "1", "2", "6", "/", "s", "c", "i", "e", "n", "c", "e", ".">> \o match.group
                   [] Contains(url, <<"p", "n", "a", "s", ".", "o", "r", "g">>) /\ match.group # <<>> ->
                          <<"1", "0", ".", "1", "0", "7", "3", "/", "p", "n", "a", "s", ".">> \o match.group
                   [] OTHER -> match.group
             continue ==
                 /\ ~(Contains(url, <<"n", "a", "t", "u", "r", "e", ".", "c", "o", "m">>) /\ match.group # <<>>)
                 /\ ~(Contains(url, <<"s", "c", "i", "e", "n", "c", "e", "m", "a", "g", ".", "o", "r", "g">>) /\ match.group # <<>>)
                 /\ ~(Contains(url, <<"p", "n", "a", "s", ".", "o", "r", "g">>) /\ match.group # <<>>)
                 /\ Contains(url, <<"c", "e", "l", "l", ".", "c", "o", "m">>)
             cleaned_doi == DOIValidator_clean_doi(potential_doi)
         IN  IF ~match.matched THEN UrlLoop(url, matches, k + 1)
             ELSE IF match.groups = 0 THEN Raise("IndexError", INDEX_ERROR)
             ELSE IF continue THEN UrlLoop(url, matches, k + 1)
             ELSE IF is_valid_doi_format(cleaned_doi) THEN Return(cleaned_doi)
             ELSE UrlLoop(url, matches, k + 1)

extract_doi_from_url(url) ==
    IF url = <<>>
    THEN ReturnNone
    ELSE Bind(unquote(url),
              LAMBDA decoded :
                 Bind(doi_url_patterns(decoded),
                      LAMBDA matches : UrlLoop(decoded, matches, 1)))

(***************************************************************************)
(* DOIValidator.extract_dois_from_text                                     *)
(***************************************************************************)
\* 10\.\d{4,}/ followed by one or more characters not in stop, at position i:
\* the last position of the match, 0 when there is none
DoiAt(s, i, stop) ==
    LET e == DigitsEnd(s, i + 3)
    IN  IF /\ LitAt(s, i, <<"1", "0", ".">>)
           /\ e - (i + 3) + 1 >= 4
           /\ e + 1 <= Len(s)
           /\ s[e + 1] = "/"
        THEN GroupEnd(s, e + 2, stop)
        ELSE 0

\* a match of one of doi_patterns at a position: where it ends and the DOI it
\* gives (group 1; the whole match for the pattern without a group)
NoMatchAt == [end |-> 0, doi |-> <<>>]

MatchAt(end, d) == [end |-> end, doi |-> d]

\* line 23: 10\.\d{4,}/[^\s\]>,;]+
BasicAt(s, i) ==
    LET e == DoiAt(s, i, SuffixExcluded)
    IN  IF e = 0 THEN NoMatchAt ELSE MatchAt(e, SubSeq(s, i, e))

\* line 25: (?:doi\.org/|dx\.doi\.org/)?(10\.\d{4,}/[^\s\]>,;/?]+)
InUrlAt(s, i) ==
    LET stop == SuffixExcluded \cup {"/", "?"}
        tries == << LitThen(s, i, <<"d", "o", "i", ".", "o", "r", "g", "/">>), LitThen(s, i, <<"d", "x", ".", "d", "o", "i", ".", "o", "r", "g", "/">>), i >>
        good == {k \in 1..3 : tries[k] # 0 /\ DoiAt(s, tries[k], stop) # 0}
        from == tries[SetMin(good)]
    IN  IF good = {} THEN NoMatchAt
        ELSE MatchAt(DoiAt(s, from, stop), SubSeq(s, from, DoiAt(s, from, stop)))

Quotes == {"\"", "'"}

\* line 27: doi[:\s]*["']?(10\.\d{4,}/[^\s\]>,;"']+)["']?
LabelledAt(s, i) ==
    LET stop == SuffixExcluded \cup Quotes
        j == RunEnd(s, i + 3, {c \in {s[n] : n \in 1..Len(s)} : c \notin Whitespace \cup {":"}}) + 1
        from == IF j <= Len(s) /\ s[j] \in Quotes THEN j + 1 ELSE j
        e == DoiAt(s, from, stop)
    IN  IF ~LitAt(s, i, <<"d", "o", "i">>) \/ e = 0 THEN NoMatchAt
        ELSE MatchAt(IF e + 1 <= Len(s) /\ s[e + 1] \in Quotes THEN e + 1 ELSE e,
                     SubSeq(s, from, e))

doi_patterns == <<"basic", "in url", "labelled">>

PatternAt(pattern, s, i) ==
    CASE pattern = "basic" -> BasicAt(s, i)
      [] pattern = "in url" -> InUrlAt(s, i)
      [] pattern = "labelled" -> LabelledAt(s, i)

\* re.finditer(pattern, text): the DOIs of the matches from position i on
RECURSIVE finditer(_, _, _)
finditer(pattern, s, i) ==
    IF i > Len(s) THEN <<>>
    ELSE Bind(PatternAt(pattern, s, i),
              LAMBDA match :
                 IF match.end = 0 THEN finditer(pattern, s, i + 1)
                 ELSE <<match.doi>> \o finditer(pattern, s, match.end + 1))

\* lines 234-240: q without the repetitions of its elements
RECURSIVE unique_dois(_)
unique_dois(q) ==
    IF q = <<>> THEN <<>>
    ELSE LET init == unique_dois(SubSeq(q, 1, Len(q) - 1))
             last == q[Len(q)]
         IN  IF \E n \in 1..Len(init) : init[n] = last THEN init ELSE Append(init, last)

\* DOIValidator_clean_doi of every element of q
clean_each(q) == [n \in 1..Len(q) |-> DOIValidator_clean_doi(q[n])]

\* cleaned_doi and self.is_valid_doi_format(cleaned_doi), line 231
kept(d) == d # <<>> /\ is_valid_doi_format(d)

extract_dois_from_text(text) ==
    IF text = <<>>
    THEN <<>>
    ELSE unique_dois(SelectSeq(clean_each(finditer("basic", text, 1)
                                            \o finditer("in url", text, 1)
                                            \o finditer("labelled", text, 1)), kept))

(***************************************************************************)
(* DOIValidator.extract_doi_from_input                                     *)
(***************************************************************************)
\* lines 50-60: the steps after the basic one
extract_from_url_or_text(input_text) ==
    Bind(extract_doi_from_url(input_text),
         LAMBDA doi_from_url :
            IF ~doi_from_url.ok THEN doi_from_url
            ELSE IF ~IsNone(doi_from_url) THEN doi_from_url
            ELSE Bind(extract_dois_from_text(input_text),
                      LAMBDA extracted_dois :
                         IF extracted_dois # <<>> THEN Return(extracted_dois[1])
                         ELSE ReturnNone))

\* extract_doi_from_input returning the text it was given instead of the
\* cleaned text
extract_doi_from_input_ReturnsInput(input_text) ==
    IF input_text = <<>>
    THEN ReturnNone
    ELSE LET basic_doi == DOIValidator_clean_doi(Strip(input_text))
         IN  IF is_valid_doi_format(basic_doi)
             THEN Return(Strip(input_text))
             ELSE extract_from_url_or_text(Strip(input_text))

extract_doi_from_input(input_text) ==
    IF input_text = <<>>
    THEN ReturnNone
    ELSE LET basic_doi == DOIValidator_clean_doi(Strip(input_text))
         IN  IF is_valid_doi_format(basic_doi)
             THEN Return(basic_doi)
             ELSE extract_from_url_or_text(Strip(input_text))

(***************************************************************************)
(* The calls of DOIValidator and of DOIConverter.clean_doi on one input    *)
(* text.  doi is the argument, outcome the result of the call, results the *)
(* results of clean_doi applied to the input and then to its own result.   *)
(***************************************************************************)
NATURE_ARTICLES == <<"h", "t", "t", "p", "s", ":", "/", "/", "w", "w", "w", ".", "n", "a", "t", "u", "r", "e", ".", "c", "o", "m", "/", "a", "r", "t", "i", "c", "l", "e", "s", "/">>

NatureSuffixes == { <<"n", "a", "t", "u", "r", "e", "1", "2", "3", "7", "3">>,
                  <<"s", "4", "1", "5", "8", "6", "-", "0", "2", "0", "-", "2", "6", "4", "9", "-", "2">>,
                  <<"a", "b">>,
                  <<"d", "4", "1", "5", "8", "6", ".", "x">> }

ValidatorHeads ==
    {<<>>} \cup {DOIValidator_prefixes[k] : k \in 1..Len(DOIValidator_prefixes)}
           \cup { <<"d", "o", "i", ":", "d", "o", "i", ":">>,
                  <<"x">>,
                  <<"D", "O", "I", ":", " ">> }

ValidatorCores == { <<"1", "0", ".", "1", "0", "0", "0", "/", "a">>,
                    <<"1", "0", ".", "1", "0", "0", "0", "0", "/", "b", ".", "c">>,
                    <<"1", "0", ".", "1", "0", "0", "/", "a">>,
                    <<"n", "a", "t", "u", "r", "e", "1", "2", "3", "7", "3">> }

ValidatorTails == { <<>>,
                    <<"/">>,
                    <<"?", "x">>,
                    <<"#", "x">>,
                    <<" ", "b">>,
                    <<"/", " ", "?", "x">>,
                    <<",">> }

Urls ==
    { <<"w", "w", "w", ".", "n", "a", "t", "u", "r", "e", ".", "c", "o", "m", "/", "a", "r", "t", "i", "c", "l", "e", "s", "/", "a", "b", "?", "x", "=", "1">>,
      <<"h", "t", "t", "p", "s", ":", "/", "/", "w", "w", "w", ".", "n", "a", "t", "u", "r", "e", ".", "c", "o", "m", "/", "a", "r", "t", "i", "c", "l", "e", "s", "/", "a", "b", "/", "f", "i", "g", "u", "r", "e", "s", "/", "1">>,
      <<"h", "t", "t", "p", "s", ":", "/", "/", "w", "w", "w", ".", "n", "a", "t", "u", "r", "e", ".", "c", "o", "m", "/", "a", "r", "t", "i", "c", "l", "e", "s", "/", "a", "b", "#", "S", "e", "c", "1">>,
      <<"h", "t", "t", "p", "s", ":", "/", "/", "w", "w", "w", ".", "c", "e", "l", "l", ".", "c", "o", "m", "/", "c", "e", "l", "l", "/", "f", "u", "l", "l", "t", "e", "x", "t", "/", "S", "0", "0", "9", "2", "-", "8", "6", "7", "4", "(", "2", "1", ")", "0", "1", "4", "9", "6", "-", "3">>,
      <<"h", "t", "t", "p", "s", ":", "/", "/", "w", "w", "w", ".", "c", "e", "l", "l", ".", "c", "o", "m", "/", "c", "e", "l", "l", "/", "h", "o", "m", "e">>,
      <<"h", "t", "t", "p", "s", ":", "/", "/", "s", "c", "i", "e", "n", "c", "e", ".", "s", "c", "i", "e", "n", "c", "e", "m", "a", "g", ".", "o", "r", "g", "/", "c", "o", "n", "t", "e", "n", "t", "/", "e", "a", "r", "l", "y", "/", "2", "0", "2", "1", "/", "1", "2", "/", "1", "6", "/", "s", "c", "i", "e", "n", "c", "e", ".", "a", "b", "m", "7", "8", "9", "2">>,
      <<"h", "t", "t", "p", "s", ":", "/", "/", "s", "c", "i", "e", "n", "c", "e", ".", "s", "c", "i", "e", "n", "c", "e", "m", "a", "g", ".", "o", "r", "g", "/", "c", "o", "n", "t", "e", "n", "t", "/", "3", "7", "4", "/", "6", "5", "7", "4", "/", "1", "5", "8", "6", "/", "s", "c", "i", "e", "n", "c", "e", ".", "a", "b", "m", "7", "8", "9", "2">>,
      <<"h", "t", "t", "p", "s", ":", "/", "/", "w", "w", "w", ".", "p", "n", "a", "s", ".", "o", "r", "g", "/", "c", "o", "n", "t", "e", "n", "t", "/", "1", "1", "8", "/", "5", "2", "/", "e", "2", "1", "1", "7", "5", "5", "3", "1", "1", "8">>,
      <<"s", "c", "i", "-", "h", "u", "b", ".", "t", "w", "/", "1", "0", ".", "1", "0", "3", "8", "/", "n", "a", "t", "u", "r", "e", "1", "2", "3", "7", "3">>,
      <<"h", "t", "t", "p", "s", ":", "/", "/", "s", "c", "i", "-", "h", "u", "b", ".", "s", "e", "/", "1", "0", ".", "1", "0", "0", "0", "/", "a">>,
      <<"s", "e", "e", " ", "1", "0", ".", "1", "0", "0", "0", "/", "a", "b", "c", ",", " ", "a", "n", "d">>,
      <<"1", "0", ".", "1", "0", "0", "0", "/", "?", "1", "0", ".", "2", "0", "0", "0", "/", "x">>,
      <<"d", "o", "i", ":", " ", "\"", "1", "0", ".", "1", "0", "0", "0", "/", "a", "\"">>,
      <<"h", "t", "t", "p", "s", ":", "/", "/", "d", "o", "i", ".", "o", "r", "g", "/", "1", "0", ".", "1", "0", "0", "0", "%", "2", "F", "a">>,
      <<"h", "t", "t", "p", "s", ":", "/", "/", "e", "x", "a", "m", "p", "l", "e", ".", "o", "r", "g", "/", "x">>,
      <<" ", " ">>,
      <<"h", "t", "t", "p", "s", ":", "/", "/">>,
      <<"c", "e", "l", "l", ".", "c", "o", "m", " ", "1", "0", ".", "1", "0", "0", "0", "/", "a">> }

ValidatorInputs ==
    {h \o c \o t : h \in ValidatorHeads, c \in ValidatorCores, t \in ValidatorTails}
      \cup {NATURE_ARTICLES \o suffix : suffix \in NatureSuffixes}
      \cup Urls

\* the result of a call is kept
Called(function, result) ==
    /\ pc = "input"
    /\ pc' = function
    /\ outcome' = result
    /\ UNCHANGED <<doi, metadata, citations, log, caller, doi_list, index, faults>>
    /\ UNCHANGED <<store_vars, ui_vars>>

ExtractDoiFromInput ==
    /\ Called("extract_doi_from_input", extract_doi_from_input(doi))
    /\ UNCHANGED results

IsValidDoiFormat ==
    /\ Called("is_valid_doi_format", Return(is_valid_doi_format(doi)))
    /\ UNCHANGED results

ValidatorCleanDoi ==
    /\ Called("DOIValidator.clean_doi", Return(DOIValidator_clean_doi(doi)))
    /\ results' = <<Return(DOIValidator_clean_doi(doi))>>

ConverterCleanDoi ==
    /\ Called("DOIConverter.clean_doi", clean_doi(doi))
    /\ results' = <<clean_doi(doi)>>

\* clean_doi is called with the string that clean_doi returned
CleanDoiAgain ==
    /\ pc \in {"DOIValidator.clean_doi", "DOIConverter.clean_doi"}
    /\ Len(results) = 1
    /\ results[1].ok
    /\ results' = Append(results, IF pc = "DOIValidator.clean_doi"
                                  THEN Return(DOIValidator_clean_doi(results[1].value))
                                  ELSE clean_doi(results[1].value))
    /\ UNCHANGED <<pc, doi, metadata, citations, outcome, log, caller, doi_list, index, faults>>
    /\ UNCHANGED <<store_vars, ui_vars>>

InitValidator ==
    /\ caller = "user"
    /\ pc = "input"
    /\ doi \in ValidatorInputs
    /\ metadata = None
    /\ citations = EmptyDict
    /\ outcome = None
    /\ log = <<>>
    /\ doi_list = <<>>
    /\ index = 0
    /\ results = <<>>
    /\ faults = 0
    /\ papers = <<>>
    /\ database_file = <<>>
    /\ argument = [none |-> TRUE]
    /\ Unused

NextValidator ==
    \/ ExtractDoiFromInput \/ IsValidDoiFormat \/ ValidatorCleanDoi \/ ConverterCleanDoi
    \/ CleanDoiAgain

SpecValidator == InitValidator /\ [][NextValidator]_vars

(***************************************************************************)
(* Storage (src/data/storage.py): the papers of self.data and the database *)
(* file.  A paper record is a dict from field names to strings; json.dump  *)
(* writes such a dict as it is.  pc is the method called last, argument    *)
(* its argument as the caller passed it and outcome its return value.      *)
(***************************************************************************)
MaxGenerated == 1

\* str(uuid4()): an identifier that no paper has yet
UUIDs == {<<"uuid", ToString(n)>> : n \in 1..MaxGenerated}

\* datetime.now().isoformat() of a call, and a timestamp of an earlier time
NOW == <<"now">>

EARLIER == <<"earlier">>

NOTE == <<"n">>

\* records passed to add_paper: with an id, with the same id and another
\* title, without id, with an empty id and an added field of its own
PaperRecords ==
    { ("id" :> DOI_A) @@ ("title" :> TitleText),
      ("id" :> DOI_A) @@ ("title" :> JournalText) @@ ("notes" :> NOTE),
      ("title" :> TitleText),
      ("id" :> <<>>) @@ ("title" :> TitleText) @@ ("added" :> EARLIER) }

PaperIds == {DOI_A, DOI_B} \cup UUIDs

\* dict.update(other), also d[key] = value
update(d, other) == other @@ d

\* save_data: the file is replaced by the data; an exception while writing
\* is logged and leaves the file as it was (lines 242-251).  A call fails
\* only when the file holds the papers of the data: of two calls in a row
\* the second one succeeds.
MayFail == database_file = papers

SaveData(ps) ==
    \/ database_file' = ps
    \/ MayFail /\ UNCHANGED database_file

\* lines 373-375: the record as add_paper leaves it; new_id is generate_id()
added_paper(paper_data_arg, new_id) ==
    LET paper_id == IF Get(paper_data_arg, "id", <<>>) # <<>>
                    THEN paper_data_arg["id"]
                    ELSE new_id
    IN  update(update(paper_data_arg, "id" :> paper_id), "added" :> NOW)

\* add_paper that stores the record under a new identifier in every case
add_paper_UnderNewId(ps, paper_data_arg, new_id) ==
    update(ps, new_id :> added_paper(paper_data_arg, new_id))

\* line 377: self.data['papers'][paper_id] = paper_data
add_paper(ps, paper_data_arg, new_id) ==
    update(ps, added_paper(paper_data_arg, new_id)["id"] :> added_paper(paper_data_arg, new_id))

\* line 384: self.data['papers'].get(paper_id)
get_paper_by_id(ps, paper_id) ==
    IF paper_id \in DOMAIN ps THEN Return(ps[paper_id]) ELSE ReturnNone

\* the methods of the store and of its managers that the user interface calls
StorageMethods ==
    { "Storage", "add_paper", "get_paper_by_id", "update_paper",
      "create_project", "rename_project", "delete_project", "duplicate_project",
      "merge_projects", "add_paper_to_project", "remove_paper_from_project",
      "delete_paper", "TagManager.add_tag_to_paper", "PaperManager.add_tag_to_paper",
      "remove_tag_from_paper", "rename_tag", "delete_tag", "merge_tags",
      "merge_duplicate_papers" }

\* the user interface is between two calls
Idle == caller = "user" /\ pc \in StorageMethods

\* the call of a method has returned
Returned(method, arg, result) ==
    /\ pc' = method
    /\ argument' = arg
    /\ outcome' = result
    /\ UNCHANGED <<doi, metadata, citations, log, caller, doi_list, index, results, faults>>
    /\ UNCHANGED ui_vars

StorageCall(method, arg, result) ==
    /\ Idle
    /\ pc' = method
    /\ argument' = arg
    /\ outcome' = result
    /\ UNCHANGED <<doi, metadata, citations, log, caller, doi_list, index, results, faults>>
    /\ UNCHANGED ui_vars

\* generate_id() is called when the record has no id or an empty one
AddPaper ==
    \E paper_data_arg \in PaperRecords :
      \E new_id \in IF Get(paper_data_arg, "id", <<>>) # <<>>
                   THEN {CHOOSE unused \in UUIDs : TRUE}
                   ELSE UUIDs \ DOMAIN papers :
        /\ StorageCall("add_paper", paper_data_arg,
                       Return(added_paper(paper_data_arg, new_id)))
        /\ papers' = add_paper(papers, paper_data_arg, new_id)
        /\ SaveData(papers')
        /\ UNCHANGED projects

GetPaperById ==
    \E paper_id \in PaperIds :
        /\ StorageCall("get_paper_by_id", paper_id, get_paper_by_id(papers, paper_id))
        /\ UNCHANGED <<papers, database_file, projects>>

\* update_paper(paper_id, {"notes": NOTE})
UpdatePaper ==
    \E paper_id \in PaperIds :
        IF paper_id \in DOMAIN papers
        THEN /\ papers' = update(papers, paper_id :>
                              update(update(papers[paper_id], "notes" :> NOTE),
                                     "modified" :> NOW))
             /\ StorageCall("update_paper", paper_id, Return(papers'[paper_id]))
             /\ SaveData(papers')
             /\ UNCHANGED projects
        ELSE /\ StorageCall("update_paper", paper_id, ReturnNone)
             /\ UNCHANGED <<papers, database_file, projects>>

InitStorage ==
    /\ caller = "user"
    /\ pc = "Storage"
    /\ doi = <<>>
    /\ metadata = None
    /\ citations = EmptyDict
    /\ outcome = None
    /\ log = <<>>
    /\ doi_list = <<>>
    /\ index = 0
    /\ results = <<>>
    /\ faults = 0
    /\ papers = EmptyDict
    /\ database_file = EmptyDict
    /\ argument = None
    /\ Unused

NextStorage == AddPaper \/ GetPaperById \/ UpdatePaper

SpecStorage == InitStorage /\ [][NextStorage]_vars

(***************************************************************************)
(* Properties of convert_doi (under Spec) and batch_convert (SpecBatch).   *)
(***************************************************************************)
\* the call of the user has made its 14 citation requests
CitationsDone == caller = "user" /\ pc = "returned"

\* the answer to the citation request for the i-th key of CITATION_FORMATS
CitationResponse(i) == log[Len(log) - Len(CITATION_FORMATS) + i].resp

Positions == 1..Len(CITATION_FORMATS)

\* C1: whenever metadata resolution succeeds, convert_doi returns a record
\* whose citations map has exactly the 14 configured format keys, whatever
\* the outcomes of the 14 citation fetches (success, HTTP 406, HTTP 404,
\* another HTTP error, a transport error, an exception).
C1_AllFormatKeys ==
    /\ Cardinality(FormatKeys) = 14
    /\ (metadata # None => pc \in {"citations", "returned"})
    /\ (pc = "returned" => /\ outcome.ok
                           /\ DOMAIN citations = FormatKeys
                           /\ DOMAIN outcome.value["citations"] = FormatKeys)

\* a returned record after one fetch raised and another was answered 406
C1_Witness ==
    /\ caller = "user"
    /\ pc = "returned"
    /\ \E i, j \in Positions :
          /\ CitationResponse(i).tag = "RuntimeError"
          /\ CitationResponse(j).tag = "response"
          /\ CitationResponse(j).status = 406
    /\ DOMAIN outcome.value["citations"] = FormatKeys

IsErrorMarked(rec) == "error" \in DOMAIN rec

INPUT_B == <<"d", "o", "i", ":">> \o DOI_B

NOT_A_DOI == <<"n", "o", "n", "e">>

\* rec is the result for the batch input raw: the error marker for raw, or
\* the full record of the DOI that raw stands for
ResultFor(rec, raw) ==
    IF IsErrorMarked(rec)
    THEN rec["id"] = raw /\ rec["DOI"] = raw
    ELSE /\ raw \in {DOI_A, INPUT_B}
         /\ rec["DOI"] \in {IF raw = DOI_A THEN DOI_A ELSE DOI_B, <<>>}
         /\ DOMAIN rec["citations"] = FormatKeys

\* C2: batch_convert returns a sequence of the length of its input in which
\* element i is the result, full record or error marker, for input i.
C2_OrderPreserved ==
    /\ Len(results) = (IF pc \in {"batch_convert", "batch_returned"} THEN index ELSE index - 1)
    /\ (pc = "batch_returned" => Len(results) = Len(doi_list))
    /\ \A i \in 1..Len(results) :
          /\ ResultFor(results[i], doi_list[i])
          /\ (doi_list[i] \in {NOT_A_DOI, <<>>} => IsErrorMarked(results[i]))

\* the batch [valid, garbage] has returned a full record and then an error marker
C2_Witness ==
    /\ pc = "batch_returned"
    /\ doi_list = <<INPUT_B, NOT_A_DOI>>
    /\ Len(results) = 2
    /\ ~IsErrorMarked(results[1])
    /\ results[1]["DOI"] = DOI_B
    /\ IsErrorMarked(results[2])

\* rec is the error marker of the input raw whose conversion failed with msg
IsMarkerFor(rec, raw, msg) ==
    /\ IsErrorMarked(rec)
    /\ rec["id"] = raw
    /\ rec["title"] = <<"Error", ":", " ">> \o msg
    /\ rec["error"] = msg
    /\ rec["citations"] = EmptyDict

\* C3: batch_convert never fails as a whole: an input whose conversion fails
\* (empty input, invalid DOI format, a metadata failure) yields an error
\* marker with the input as id, the failure description as title and an empty
\* citations map, and the remaining inputs are still processed.
C3_ErrorMarker ==
    /\ [](\A i \in 1..Len(results) :
             /\ (doi_list[i] = <<>> =>
                    IsMarkerFor(results[i], <<>>,
                                <<"DOI", " ", "cannot", " ", "be", " ", "empty">>))
             /\ (doi_list[i] = NOT_A_DOI =>
                    IsMarkerFor(results[i], NOT_A_DOI,
                                <<"Invalid", " ", "DOI", " ", "format", ":", " ">> \o NOT_A_DOI))
             /\ (IsErrorMarked(results[i]) =>
                    IsMarkerFor(results[i], doi_list[i], results[i]["error"])))
    /\ [](pc = "batch_returned" => index = Len(doi_list) /\ Len(results) = Len(doi_list))
    /\ [][pc = "raised" =>
            /\ pc' = "batch_convert"
            /\ index' = index
            /\ Len(results') = Len(results) + 1
            /\ SubSeq(results', 1, Len(results)) = results
            /\ IsMarkerFor(results'[Len(results')], doi_list[index], outcome.msg)]_vars

\* a batch whose first DOI was not found and whose second one was converted
C3_Witness ==
    /\ pc = "batch_returned"
    /\ Len(results) = 2
    /\ IsErrorMarked(results[1])
    /\ results[1]["error_type"] = "Exception"
    /\ Contains(results[1]["title"], <<"DOI", " ", "not", " ", "found">>)
    /\ ~IsErrorMarked(results[2])

\* C4: for each of the 14 style keys get_formatted_citation never raises: for
\* every outcome of the HTTP call (success, an HTTP error status, a timeout, a
\* connection failure) it returns a string; convert_doi, which writes an
\* "Error: ..." entry for a fetch that raised, writes none for these outcomes.
C4_NeverRaises ==
    CitationsDone =>
        \A i \in Positions :
            LET resp == CitationResponse(i)
                key == CITATION_FORMATS[i]
            IN  resp.tag \in {"response", "Timeout", "ConnectionError"} =>
                    /\ ~StartsWith(citations[key], <<"Error", ":", " ">>)
                    /\ (resp # NominalCitation(key) =>
                           /\ get_formatted_citation(key, resp).ok
                           /\ citations[key] = get_formatted_citation(key, resp).value)

\* the fetches were done, one timed out and one was answered 406
C4_Witness ==
    /\ CitationsDone
    /\ \E i, j \in Positions :
          /\ CitationResponse(i).tag = "Timeout"
          /\ CitationResponse(j).tag = "response"
          /\ CitationResponse(j).status = 406
          /\ ~StartsWith(citations[CITATION_FORMATS[i]], <<"Error", ":", " ">>)

\* the citations of a call all of whose fetches succeed
AllSucceeded == CitationLoop(Len(CITATION_FORMATS), CitationAnswers(<<>>))

\* C5: within one convert_doi call the failure of the fetch for one style
\* changes only the entry of that style: the entry of every style whose fetch
\* succeeded is the one it has when all fetches succeed, and the metadata
\* fields are the ones resolved before the fetches.
C5_FailureIsLocal ==
    /\ [](CitationsDone =>
            \A i \in Positions :
                CitationResponse(i) = NominalCitation(CITATION_FORMATS[i]) =>
                    citations[CITATION_FORMATS[i]] = AllSucceeded[CITATION_FORMATS[i]])
    /\ [](caller = "user" /\ pc = "returned" =>
            /\ outcome.value["citations"] = citations
            /\ \A k \in DOMAIN metadata : outcome.value[k] = metadata[k])
    /\ [][pc = "citations" => metadata' = metadata]_vars

\* a returned record one of whose fetches was answered 404, the others succeeding
C5_Witness ==
    /\ caller = "user"
    /\ pc = "returned"
    /\ \E i \in Positions :
          /\ CitationResponse(i).tag = "response"
          /\ CitationResponse(i).status = 404
          /\ outcome.value["citations"][CITATION_FORMATS[i]] = <<"DOI", " ", "not", " ", "found">>
          /\ \A j \in Positions \ {i} :
                /\ CitationResponse(j) = NominalCitation(CITATION_FORMATS[j])
                /\ outcome.value["citations"][CITATION_FORMATS[j]] = AllSucceeded[CITATION_FORMATS[j]]
    /\ outcome.value["title"] = TitleText

\* C6: get_formatted_citation maps HTTP 406 to "Format {styleKey} not
\* supported by publisher", HTTP 404 to "DOI not found", any other HTTP error
\* status to "Service error (HTTP {status})" and a transport error without a
\* response to "Connection error: {detail}".
C6_Placeholders ==
    CitationsDone =>
        \A i \in Positions :
            LET resp == CitationResponse(i)
                key == CITATION_FORMATS[i]
                entry == citations[key]
            IN  /\ (resp.tag = "response" /\ resp.status = 406 =>
                      entry = <<"Format", " ", key, " ", "not", " ", "supported", " ",
                                "by", " ", "publisher">>)
                /\ (resp.tag = "response" /\ resp.status = 404 =>
                      entry = <<"DOI", " ", "not", " ", "found">>)
                /\ (resp.tag = "response" /\ resp.status >= 400 /\ resp.status \notin {404, 406} =>
                      entry = <<"Service", " ", "error", " ", "(", "HTTP", " ",
                                ToString(resp.status), ")">>)
                /\ (resp.tag \in {"Timeout", "ConnectionError"} =>
                      entry = <<"Connection", " ", "error", ":", " ">> \o ErrorDetail(resp.tag))

\* the fetches were done, one was answered 404 and one 500
C6_Witness ==
    /\ CitationsDone
    /\ \E i, j \in Positions :
          /\ CitationResponse(i).tag = "response"
          /\ CitationResponse(i).status = 404
          /\ CitationResponse(j).tag = "response"
          /\ CitationResponse(j).status = 500

\* get_doi_metadata has called get_doi_metadata_fallback
FallbackCalled ==
    \/ pc = "get_doi_metadata_fallback"
    \/ Len(log) >= 2 /\ log[2].request = FallbackRequest

\* the exchanges of the metadata resolution
MetadataExchanges == IF CitationsDone THEN Len(log) - Len(CITATION_FORMATS) ELSE Len(log)

\* connection error, timeout or HTTP error status
TransportFailure(resp) == resp.tag \in {"Timeout", "ConnectionError"} \/ IsHTTPError(resp)

\* a response with a success status whose body response.json() cannot parse
UnparseableBody(resp) == resp.tag = "response" /\ resp.status < 400 /\ ~resp.body.json

\* C7 as stated: the fallback request is issued exactly when the CrossRef
\* request failed by a connection error, a timeout or an HTTP error status,
\* after it and at most once, and CrossRef is not requested a second time.
C7_FallbackExactlyOnTransportFailure ==
    caller = "user" /\ Len(log) >= 1 =>
        /\ log[1].request = PrimaryRequest
        /\ (FallbackCalled <=> TransportFailure(log[1].resp))
        /\ \A i \in 2..Len(log) : log[i].request # PrimaryRequest
        /\ MetadataExchanges <= 2
        /\ (pc = "get_doi_metadata_fallback" => Len(log) = 1)

\* C7, amended: the fallback request is issued exactly when the CrossRef
\* attempt raised a RequestException: always on a connection error, a timeout
\* or an HTTP error status, and besides only on a success response whose body
\* is not JSON (a RequestException since requests 2.27); after the CrossRef
\* request and at most once, and CrossRef is not requested a second time.
C7_FallbackOnRequestException ==
    caller = "user" /\ Len(log) >= 1 =>
        /\ log[1].request = PrimaryRequest
        /\ (TransportFailure(log[1].resp) => FallbackCalled)
        /\ (FallbackCalled => TransportFailure(log[1].resp) \/ UnparseableBody(log[1].resp))
        /\ \A i \in 2..Len(log) : log[i].request # PrimaryRequest
        /\ MetadataExchanges <= 2
        /\ (pc = "get_doi_metadata_fallback" => Len(log) = 1)

\* CrossRef answered 200 with a body that is no JSON, the fallback request
\* was issued and the record returned
C7_Witness ==
    /\ caller = "user"
    /\ pc = "returned"
    /\ MetadataExchanges = 2
    /\ UnparseableBody(log[1].resp)
    /\ log[2].request = FallbackRequest

\* the kinds of failure of the metadata resolution that C8 names
FailureKind(resp) ==
    CASE resp.tag = "Timeout" -> "Timeout"
      [] resp.tag = "ConnectionError" -> "ConnectionFailure"
      [] resp.tag = "RuntimeError" -> "none"
      [] IsHTTPError(resp) -> IF resp.status = 404 THEN "NotFound" ELSE "ServiceError"
      [] ~Contains(resp.ctype, CT_JSON) /\ ~Contains(resp.ctype, CT_CSL) -> "UnexpectedFormat"
      [] ~resp.body.json -> "UnexpectedFormat"
      [] OTHER -> "none"

\* C8: when the metadata resolution fails because the service answers 404,
\* the message of the error contains "not found"; the messages for 404,
\* timeout, connection failure, other HTTP error statuses and unexpected
\* format are pairwise distinct.
C8_DistinctMessages ==
    caller = "user" /\ pc = "raised" /\ Len(log) = 2 /\ FailureKind(log[2].resp) # "none" =>
        /\ outcome.type = "Exception"
        /\ (FailureKind(log[2].resp) = "NotFound" =>
               Contains(outcome.msg, <<"not", " ", "found">>))
        /\ \A other \in FallbackResponses(doi) :
               FailureKind(other) \notin {"none", FailureKind(log[2].resp)} =>
                   get_doi_metadata_fallback(doi, other).msg # outcome.msg

\* CrossRef timed out, the resolver answered 404 and convert_doi raised
C8_Witness ==
    /\ caller = "user"
    /\ pc = "raised"
    /\ Len(log) = 2
    /\ log[1].resp.tag = "Timeout"
    /\ log[2].resp.tag = "response"
    /\ log[2].resp.status = 404

\* C9: in the metadata fallback a success response whose Content-Type
\* advertises neither application/json nor
\* application/vnd.citationstyles.csl+json is never parsed into a record: the
\* resolution fails with the error of the unexpected format.
C9_ContentTypeChecked ==
    /\ caller = "user"
    /\ Len(log) >= 2
    /\ log[2].request = FallbackRequest
    /\ log[2].resp.tag = "response"
    /\ log[2].resp.status < 400
    /\ ~Contains(log[2].resp.ctype, CT_JSON)
    /\ ~Contains(log[2].resp.ctype, CT_CSL)
    => /\ pc = "raised"
       /\ metadata = None
       /\ outcome.type = "Exception"
       /\ outcome.msg = <<"DOI", " ", "service", " ", "returned", " ", "invalid", " ",
                          "data", " ", "format", ".">>

\* the resolver answered 200 text/html with a body that parses as JSON, and
\* convert_doi raised
C9_Witness ==
    /\ caller = "user"
    /\ pc = "raised"
    /\ Len(log) = 2
    /\ log[2].resp.tag = "response"
    /\ log[2].resp.status = 200
    /\ log[2].resp.ctype = CT_HTML
    /\ log[2].resp.body.json

\* s conforms in its entirety to the DOI grammar 10.NNNN+/<suffix>
ConformsToGrammar(s) ==
    /\ DOI_PATTERN_match(s)
    /\ \A i \in (5 + DigitRun(s))..Len(s) : s[i] \notin SuffixExcluded

\* C10: when the input of convert_doi is empty or does not clean to a string
\* matching the DOI grammar, convert_doi fails with ValueError before any
\* HTTP request is issued.
C10_InvalidInputRaisesBeforeRequest ==
    [][pc = "convert_doi" /\ (doi = <<>> \/ ~ConformsToGrammar(clean_doi_text(doi))) =>
          /\ pc' = "raised"
          /\ outcome'.type = "ValueError"
          /\ log' = <<>>]_vars

\* the resolver's answer to the fallback request makes the fallback raise
FallbackFails(resp) == resp.tag = "RuntimeError" \/ FailureKind(resp) # "none"

\* C11: in convert_doi the citation requests are issued only after the
\* metadata resolution has succeeded: if the primary and the fallback request
\* both fail, convert_doi raises, issues no citation request and produces no
\* paper record.
C11_CitationsAfterMetadata ==
    caller = "user" =>
        /\ (metadata = None => Len(log) <= 2 /\ citations = EmptyDict)
        /\ (pc = "raised" =>
              /\ metadata = None
              /\ ~outcome.ok
              /\ \A i \in 1..Len(log) :
                    log[i].request = (IF i = 1 THEN PrimaryRequest ELSE FallbackRequest))
        /\ (Len(log) >= 2 /\ log[2].request = FallbackRequest /\ FallbackFails(log[2].resp) =>
              pc = "raised" /\ Len(log) = 2)

\* CrossRef answered 500, the resolver refused the connection, convert_doi raised
C11_Witness ==
    /\ caller = "user"
    /\ pc = "raised"
    /\ Len(log) = 2
    /\ log[1].resp.tag = "response"
    /\ log[1].resp.status = 500
    /\ log[2].resp.tag = "ConnectionError"
    /\ citations = EmptyDict

(***************************************************************************)
(* Properties of DOIValidator and of the two clean_doi (SpecValidator).    *)
(***************************************************************************)
Extracted == pc = "extract_doi_from_input"

\* the input is the k-th of the 13 prefixes followed by s
AfterPrefix(k) == SubSeq(doi, Len(prefixes[k]) + 1, Len(doi))

PrefixedDoi(k) ==
    /\ StartsWith(doi, prefixes[k])
    /\ ConformsToGrammar(AfterPrefix(k))

\* s carries no query, no fragment and no trailing slash
Bare(s) ==
    /\ ~Contains(s, <<"?">>)
    /\ ~Contains(s, <<"#">>)
    /\ s[Len(s)] # "/"

CELL_URL == <<"h", "t", "t", "p", "s", ":", "/", "/", "w", "w", "w", ".", "c", "e", "l", "l", ".", "c", "o", "m", "/", "c", "e", "l", "l", "/", "f", "u", "l", "l", "t", "e", "x", "t", "/", "S", "0", "0", "9", "2", "-", "8", "6", "7", "4", "(", "2", "1", ")", "0", "1", "4", "9", "6", "-", "3">>

\* C13: for every input string, extract_doi_from_input returns a DOI or None
\* and never raises an exception; a Cell article URL yields None or a DOI.
C13_ExtractNeverRaises == Extracted => outcome.ok

\* the article identifier of a Nature URL: one path segment, with no query,
\* no fragment, no escape and no whitespace
ArticleIdentifier(suffix) ==
    /\ suffix # <<>>
    /\ \A i \in 1..Len(suffix) : suffix[i] \notin Whitespace \cup {"/", "?", "#", "%"}

NatureSuffix == SubSeq(doi, Len(NATURE_ARTICLES) + 1, Len(doi))

\* C14: for a Nature article URL https://www.nature.com/articles/<suffix>,
\* extract_doi_from_input returns "10.1038/" followed by <suffix>.
C14_NatureArticle ==
    Extracted /\ StartsWith(doi, NATURE_ARTICLES) /\ ArticleIdentifier(NatureSuffix)
        => outcome = Return(<<"1", "0", ".", "1", "0", "3", "8", "/">> \o NatureSuffix)

C14_Witness ==
    /\ Extracted
    /\ doi = <<"h", "t", "t", "p", "s", ":", "/", "/", "w", "w", "w", ".", "n", "a", "t", "u", "r", "e", ".", "c", "o", "m", "/", "a", "r", "t", "i", "c", "l", "e", "s", "/", "n", "a", "t", "u", "r", "e", "1", "2", "3", "7", "3">>
    /\ outcome = Return(<<"1", "0", ".", "1", "0", "3", "8", "/", "n", "a", "t", "u", "r", "e", "1", "2", "3", "7", "3">>)

\* C15: DOI cleaning is idempotent: for every input string x,
\* clean_doi(clean_doi(x)) equals clean_doi(x), in the validator and in the
\* converter.
C15_CleanIdempotent == Len(results) = 2 => results[2] = results[1]

\* C16: for every input string x, DOIConverter.clean_doi(x) succeeds exactly
\* when DOIValidator.is_valid_doi_format(x) is true, and then returns the
\* same string as DOIValidator.clean_doi(x).
C16_SameCleaning ==
    pc = "DOIConverter.clean_doi" =>
        /\ outcome.ok <=> is_valid_doi_format(doi)
        /\ outcome.ok => outcome.value = DOIValidator_clean_doi(doi)

\* C17: is_valid_doi_format(x) is true exactly when the cleaned form of x
\* conforms in its entirety to the DOI grammar; it is true for
\* 10.1038/nature12373 and false for nature12373 and for the empty string.
C17_ValidIffConforms ==
    pc = "is_valid_doi_format" =>
        outcome = Return(ConformsToGrammar(DOIValidator_clean_doi(doi)))

\* C18: whichever source (CrossRef primary or CSL-JSON fallback) supplied the
\* metadata, the container-title of the normalized record is a sequence.
C18_ContainerTitleIsSequence ==
    "container-title" \in DOMAIN metadata => metadata["container-title"].isList

\* the text of a successful citation response after the general cleaning
CleanedBody(resp) == Strip(CollapseWhitespace(Strip(resp.body)))

\* C19: for a successful citation response the style-specific check replaces
\* the text exactly when the marker is missing: BibTeX is returned if it
\* starts with "@", RIS if the response body starts with "TY  -", and the
\* other 12 styles are never replaced.
C19_ReplacedExactlyWhenMarkerMissing ==
    CitationsDone =>
        \A i \in Positions :
            LET resp == CitationResponse(i)
                key == CITATION_FORMATS[i]
                marker == IF key = "BibTeX" THEN <<"@">>
                          ELSE IF key = "RIS" THEN RIS_MARKER ELSE <<>>
                placeholder == IF key = "BibTeX" THEN P_INVALID_BIBTEX ELSE P_INVALID_RIS
            IN  resp.tag = "response" /\ resp.status < 400 /\ resp.body # <<>> =>
                    citations[key] = IF StartsWith(Strip(resp.body), marker)
                                     THEN CleanedBody(resp)
                                     ELSE placeholder

(***************************************************************************)
(* Properties of Storage (SpecStorage).                                    *)
(***************************************************************************)
\* the fields of the written record that the store sets itself
Bookkeeping(written) ==
    {"added", "modified"} \cup (IF Get(written, "id", <<>>) = <<>> THEN {"id"} ELSE {})

\* read equals written field for field, apart from the bookkeeping fields
SameRecord(read, written) ==
    /\ DOMAIN read \subseteq DOMAIN written \cup {"id", "added", "modified"}
    /\ \A field \in DOMAIN written \ Bookkeeping(written) :
          field \in DOMAIN read /\ read[field] = written[field]

\* C20: after add_paper(record), get_paper_by_id(record id) returns a record
\* equal to the written one field for field, apart from the bookkeeping
\* fields the store adds (id when absent, added, modified).
C20_RoundTrip ==
    [][ pc = "add_paper" /\ pc' = "get_paper_by_id" /\ argument' = outcome.value["id"]
            => ~IsNone(outcome') /\ SameRecord(outcome'.value, argument) ]_vars

\* a record without id was added and has been read back by its generated id
C20_Witness ==
    /\ pc = "get_paper_by_id"
    /\ argument \in UUIDs
    /\ outcome = Return(update(update("title" :> TitleText, "id" :> argument),
                                "added" :> NOW))
    /\ DOI_A \in DOMAIN papers

\* C25: every paper record has a non-empty id; the record built by
\* convert_doi has id equal to the resolved DOI.
C25_RecordIdIsDoi ==
    CitationsDone /\ outcome.ok =>
        /\ outcome.value["id"] # <<>>
        /\ outcome.value["id"] = doi

(***************************************************************************)
(* Projects (src/data/storage.py, src/core/project_manager.py).  data is   *)
(* self.data with its keys projects and papers; a project record has the   *)
(* keys id, name and papers, the list of the ids of its papers (its time   *)
(* stamps created and modified are left out).  A method of the store is    *)
(* an operator from the data to the data it leaves; a method of the        *)
(* manager gives a call record: the data it leaves, its result and the     *)
(* papers that its save_data calls wrote.                                  *)
(***************************************************************************)
\* projects in the list at a time
MaxProjects == 2

\* length of a project name
MaxNameLen == 8

MY_PAPERS == <<"M", "y", " ", "P", "a", "p", "e", "r", "s">>

COPY == <<" ", "(", "C", "o", "p", "y", ")">>

\* str(uuid4()) of a project
ProjectIds == {<<"project", ToString(n)>> : n \in 1..MaxProjects}

\* names the user types: a name, the name in the other case with blanks
\* around it, the empty one and a blank one
ProjectNames == { <<"A">>, <<" ", "a", " ">>, <<>>, <<" ">> }

Data(prs, ps) == [projects |-> prs, papers |-> ps]

Call(data, result, saved) == [data |-> data, result |-> result, saved |-> saved]

Range(list) == {list[i] : i \in 1..Len(list)}

\* del d[key] for the keys of `keys`
Without(d, keys) == [key \in DOMAIN d \ keys |-> d[key]]

\* list.remove(item)
Remove(list, item) ==
    LET at == SetMin({i \in 1..Len(list) : list[i] = item})
    IN  SubSeq(list, 1, at - 1) \o SubSeq(list, at + 1, Len(list))

\* lines 316-322 (create_project), 167-173 (create_default_data)
Project(project_id, name) == [id |-> project_id, name |-> name, papers |-> <<>>]

\* lines 335-338: the place of the first project with the id, 0 for None
project_position(data, project_id) ==
    LET at == {i \in 1..Len(data.projects) : data.projects[i].id = project_id}
    IN  IF at = {} THEN 0 ELSE SetMin(at)

has_project(data, project_id) == project_position(data, project_id) # 0

get_project_by_id(data, project_id) == data.projects[project_position(data, project_id)]

\* lines 324-325
Storage_create_project(data, name, new_id) ==
    [data EXCEPT !.projects = Append(@, Project(new_id, name))]

\* lines 366-368 with update_project (lines 340-348)
Storage_rename_project(data, project_id, new_name) ==
    IF has_project(data, project_id)
    THEN [data EXCEPT !.projects[project_position(data, project_id)].name = new_name]
    ELSE data

\* lines 352-361: the papers of the project are deleted from the collection,
\* then the project from the list
Storage_delete_project(data, project_id) ==
    IF has_project(data, project_id)
    THEN [projects |-> SelectSeq(data.projects, LAMBDA p : p.id # project_id),
          papers |-> Without(data.papers,
                             Range(get_project_by_id(data, project_id).papers))]
    ELSE data

\* lines 397-405
Storage_delete_paper(data, paper_id) ==
    IF paper_id \in DOMAIN data.papers
    THEN [projects |-> [i \in 1..Len(data.projects) |->
                          IF paper_id \in Range(data.projects[i].papers)
                          THEN [data.projects[i] EXCEPT !.papers = Remove(@, paper_id)]
                          ELSE data.projects[i]],
          papers |-> Without(data.papers, {paper_id})]
    ELSE data

\* lines 413-427: add_paper is called in every case, the id is appended to
\* the project's list when it is not there yet
Storage_add_paper_to_project(data, project_id, paper_data_arg, new_id) ==
    IF has_project(data, project_id)
    THEN LET paper_id == added_paper(paper_data_arg, new_id)["id"]
             at == project_position(data, project_id)
         IN  [projects |-> IF paper_id \in Range(data.projects[at].papers)
                           THEN data.projects
                           ELSE [data.projects EXCEPT ![at].papers = Append(@, paper_id)],
              papers |-> add_paper(data.papers, paper_data_arg, new_id)]
    ELSE data

\* lines 433-438
Storage_remove_paper_from_project(data, project_id, paper_id) ==
    IF /\ has_project(data, project_id)
       /\ paper_id \in Range(get_project_by_id(data, project_id).papers)
    THEN [data EXCEPT !.projects[project_position(data, project_id)].papers =
                          Remove(@, paper_id)]
    ELSE data

\* lines 443-454: the records of the listed papers that the collection has
get_papers_in_project(data, project_id) ==
    IF has_project(data, project_id)
    THEN LET listed == get_project_by_id(data, project_id).papers
             present == SelectSeq(listed, LAMBDA paper_id : paper_id \in DOMAIN data.papers)
         IN  [i \in 1..Len(present) |-> data.papers[present[i]]]
    ELSE <<>>

ValueError == "ValueError"

EMPTY_NAME == <<"Project", " ", "name", " ", "cannot", " ", "be", " ", "empty">>

NOT_FOUND == <<"Project", " ", "not", " ", "found">>

BOTH_NOT_FOUND == <<"One", " ", "or", " ", "both", " ", "projects", " ", "not", " ", "found">>

AlreadyExists(name) ==
    <<"Project", " ", "'">> \o name \o <<"'", " ", "already", " ", "exists">>

\* the test of the loops of create_project and rename_project with == in the
\* place of the comparison of the lower-case names
name_taken_SameCase(data, name, current) ==
    \E i \in 1..Len(data.projects) :
        /\ data.projects[i].id # current
        /\ data.projects[i].name = Strip(name)

\* project_manager.py lines 21-24 and 42-48: a project other than `current`
\* has the name, the case of the letters ignored (create_project has no
\* current project: <<>>)
name_taken(data, name, current) ==
    \E i \in 1..Len(data.projects) :
        /\ data.projects[i].id # current
        /\ Lower(data.projects[i].name) = Lower(Strip(name))

\* project_manager.py lines 15-26
ProjectManager_create_project(data, name, new_id) ==
    IF name = <<>> \/ Strip(name) = <<>>
    THEN Call(data, Raise(ValueError, EMPTY_NAME), {})
    ELSE IF name_taken(data, name, <<>>)
    THEN Call(data, Raise(ValueError, AlreadyExists(name)), {})
    ELSE Call(Storage_create_project(data, Strip(name), new_id),
              Return(Project(new_id, Strip(name))), {data.papers})

\* project_manager.py lines 36-50
ProjectManager_rename_project(data, project_id, new_name) ==
    IF new_name = <<>> \/ Strip(new_name) = <<>>
    THEN Call(data, Raise(ValueError, EMPTY_NAME), {})
    ELSE IF name_taken(data, new_name, project_id)
    THEN Call(data, Raise(ValueError, AlreadyExists(new_name)), {})
    ELSE IF has_project(data, project_id)
    THEN Call(Storage_rename_project(data, project_id, Strip(new_name)),
              Return([get_project_by_id(data, project_id) EXCEPT !.name = Strip(new_name)]),
              {data.papers})
    ELSE Call(data, ReturnNone, {})

\* project_manager.py lines 52-58
ProjectManager_delete_project(data, project_id) ==
    IF has_project(data, project_id)
    THEN Call(Storage_delete_project(data, project_id), Return(TRUE),
              {Storage_delete_project(data, project_id).papers})
    ELSE Call(data, Raise(ValueError, NOT_FOUND), {})

\* the loops of duplicate_project (lines 152-154) and merge_projects (lines
\* 170-171): add_paper_to_project for the first k records of paper_list
RECURSIVE add_each(_, _, _, _)
add_each(data, project_id, paper_list, k) ==
    IF k = 0
    THEN data
    ELSE Storage_add_paper_to_project(add_each(data, project_id, paper_list, k - 1),
                                      project_id, paper_list[k], None)

\* the papers written by the save_data calls of the loop
saved_by_each(data, project_id, paper_list) ==
    {add_each(data, project_id, paper_list, k).papers : k \in 1..Len(paper_list)}

\* project_manager.py lines 138-156; `not new_name` holds for None and for
\* the empty name, which stands for both
ProjectManager_duplicate_project(data, project_id, new_name, new_id) ==
    IF ~has_project(data, project_id)
    THEN Call(data, Raise(ValueError, NOT_FOUND), {})
    ELSE LET name == IF new_name = <<>>
                     THEN get_project_by_id(data, project_id).name \o COPY
                     ELSE new_name
             created == ProjectManager_create_project(data, name, new_id)
             paper_list == get_papers_in_project(created.data, project_id)
             copied == add_each(created.data, new_id, paper_list, Len(paper_list))
         IN  IF created.result.ok
             THEN Call(copied, Return(get_project_by_id(copied, new_id)),
                       created.saved \cup saved_by_each(created.data, new_id, paper_list))
             ELSE created

\* project_manager.py lines 158-176
ProjectManager_merge_projects(data, source_project_id, target_project_id) ==
    IF ~has_project(data, source_project_id) \/ ~has_project(data, target_project_id)
    THEN Call(data, Raise(ValueError, BOTH_NOT_FOUND), {})
    ELSE LET paper_list == get_papers_in_project(data, source_project_id)
             added == add_each(data, target_project_id, paper_list, Len(paper_list))
             deleted == ProjectManager_delete_project(added, source_project_id)
         IN  Call(deleted.data,
                  Return(get_project_by_id(added, target_project_id)),
                  saved_by_each(data, target_project_id, paper_list) \cup deleted.saved)

\* the record convert_doi returns for a DOI (doi_converter.py lines 55-64),
\* with its fields id, title, tags and notes
converted_paper(d) ==
    ("id" :> d) @@ ("title" :> TitleText) @@ ("tags" :> <<>>) @@ ("notes" :> <<>>)

ConvertedDois == {DOI_A}

\* the call of a method: its result, the data it leaves, and the file, which
\* holds the papers written by one of its save_data calls or is as it was
Perform(method, arg, call) ==
    \E done \in {call} :
        /\ Returned(method, arg, done.result)
        /\ projects' = done.data.projects
        /\ papers' = done.data.papers
        /\ database_file' \in done.saved
                                \cup (IF done.saved = {} \/ MayFail THEN {database_file} ELSE {})

\* generate_id() for a project: an identifier that no project of the list
\* has, the first of them (the identifiers are opaque to the code)
NewProjectId ==
    LET unused == {n \in 1..MaxProjects :
                      \A i \in 1..Len(projects) : projects[i].id # <<"project", ToString(n)>>}
    IN  <<"project", ToString(SetMin(unused))>>

\* create_project is called while the list has fewer than MaxProjects
\* projects
CreateProject ==
    /\ Idle
    /\ Len(projects) < MaxProjects
    /\ \E name \in ProjectNames :
          Perform("create_project", name,
                  ProjectManager_create_project(Data(projects, papers), name, NewProjectId))

RenameProject ==
    \E project_id \in ProjectIds, new_name \in ProjectNames :
      /\ Idle
      /\ Perform("rename_project", <<project_id, new_name>>,
                ProjectManager_rename_project(Data(projects, papers), project_id, new_name))

DeleteProject ==
    \E project_id \in ProjectIds :
      /\ Idle
      /\ Perform("delete_project", project_id,
                ProjectManager_delete_project(Data(projects, papers), project_id))

\* the copy gets a name of MaxNameLen characters at most
DuplicateProject ==
    /\ Idle
    /\ Len(projects) < MaxProjects
    /\ \E project_id \in ProjectIds, new_name \in ProjectNames :
        \E done \in {ProjectManager_duplicate_project(Data(projects, papers), project_id,
                                                      new_name, NewProjectId)} :
          /\ done.result.ok => Len(done.result.value.name) <= MaxNameLen
          /\ Perform("duplicate_project", <<project_id, new_name>>, done)

MergeProjects ==
    \E source_project_id \in ProjectIds, target_project_id \in ProjectIds :
      /\ Idle
      /\ Perform("merge_projects", <<source_project_id, target_project_id>>,
                ProjectManager_merge_projects(Data(projects, papers), source_project_id,
                                              target_project_id))

\* PaperManager.add_paper_to_project (paper_manager.py lines 40-42) with
\* Storage.add_paper_to_project: the stored record is returned, None when
\* there is no such project
PaperManager_add_paper_to_project(data, project_id, paper_data_arg, new_id) ==
    IF has_project(data, project_id)
    THEN Call(Storage_add_paper_to_project(data, project_id, paper_data_arg, new_id),
              Return(added_paper(paper_data_arg, new_id)),
              {Storage_add_paper_to_project(data, project_id, paper_data_arg, new_id).papers})
    ELSE Call(data, ReturnNone, {})

\* Storage.remove_paper_from_project with its result (lines 431-439)
remove_paper_from_project(data, project_id, paper_id) ==
    IF Storage_remove_paper_from_project(data, project_id, paper_id) # data
    THEN Call(Storage_remove_paper_from_project(data, project_id, paper_id),
              Return(TRUE), {data.papers})
    ELSE Call(data, Return(FALSE), {})

\* Storage.delete_paper with its result (lines 395-409)
delete_paper(data, paper_id) ==
    IF paper_id \in DOMAIN data.papers
    THEN Call(Storage_delete_paper(data, paper_id), Return(TRUE),
              {Storage_delete_paper(data, paper_id).papers})
    ELSE Call(data, Return(FALSE), {})

\* MainWindow.on_doi_converted (main_window.py lines 195-216) adds the
\* record of a conversion to a project
AddPaperToProject ==
    \E project_id \in ProjectIds, d \in ConvertedDois :
      /\ Idle
      /\ Perform("add_paper_to_project", <<project_id, converted_paper(d)>>,
                PaperManager_add_paper_to_project(Data(projects, papers), project_id,
                                                  converted_paper(d), None))

RemovePaperFromProject ==
    \E project_id \in ProjectIds, paper_id \in ConvertedDois :
      /\ Idle
      /\ Perform("remove_paper_from_project", <<project_id, paper_id>>,
                remove_paper_from_project(Data(projects, papers), project_id, paper_id))

DeletePaper ==
    \E paper_id \in ConvertedDois :
      /\ Idle
      /\ Perform("delete_paper", paper_id, delete_paper(Data(projects, papers), paper_id))

\* Storage.__init__ without a database file: create_default_data (lines
\* 150-180) and its default project
InitProjects ==
    /\ caller = "user"
    /\ pc = "Storage"
    /\ doi = <<>>
    /\ metadata = None
    /\ citations = EmptyDict
    /\ outcome = None
    /\ log = <<>>
    /\ doi_list = <<>>
    /\ index = 0
    /\ results = <<>>
    /\ faults = 0
    /\ papers = EmptyDict
    /\ database_file = EmptyDict
    /\ argument = None
    /\ projects = <<Project(<<"project", "1">>, MY_PAPERS)>>
    /\ signals = <<>>
    /\ dialog = "closed"
    /\ running = NoThreads
    /\ widget = InitialWidget

NextProjects ==
    \/ CreateProject \/ RenameProject \/ DeleteProject \/ DuplicateProject \/ MergeProjects
    \/ AddPaperToProject \/ RemovePaperFromProject \/ DeletePaper \/ UpdatePaper

SpecProjects == InitProjects /\ [][NextProjects]_vars

(***************************************************************************)
(* Properties of the projects (SpecProjects).                              *)
(***************************************************************************)
\* the ids of the papers that get_papers_in_project returns
returned_ids(data, project_id) ==
    {paper["id"] : paper \in Range(get_papers_in_project(data, project_id))}

\* C21: after delete_project, a paper that another project references too
\* is still in the papers collection and still returned by
\* get_papers_in_project of that other project.
C21_SharedPaperSurvives ==
    [][ pc' = "delete_project" /\ outcome'.ok =>
          \A i \in 1..Len(projects) :
            projects[i].id # argument' =>
              \A paper_id \in returned_ids(Data(projects, papers), projects[i].id) :
                  /\ paper_id \in DOMAIN papers'
                  /\ paper_id \in returned_ids(Data(projects', papers'), projects[i].id)
      ]_vars

\* C27: after merge_projects(source, target) with two distinct existing
\* projects the source is gone and get_papers_in_project(target) returns
\* every paper that was in the source or in the target.
C27_MergeKeepsPapers ==
    [][ /\ pc' = "merge_projects"
        /\ outcome'.ok
        /\ argument'[1] # argument'[2]
        => /\ ~has_project(Data(projects', papers'), argument'[1])
           /\ returned_ids(Data(projects, papers), argument'[1])
                \cup returned_ids(Data(projects, papers), argument'[2])
                \subseteq returned_ids(Data(projects', papers'), argument'[2])
      ]_vars

\* C28: every paper id in a project's papers list is a key of the papers
\* collection, and no project's papers list holds the same id twice.
C28_ReferentialIntegrity ==
    \A i \in 1..Len(projects) :
        /\ Range(projects[i].papers) \subseteq DOMAIN papers
        /\ Cardinality(Range(projects[i].papers)) = Len(projects[i].papers)

\* C29: when a paper with the same id is stored already, add_paper_to_project
\* leaves the tags and the notes of the stored record as they were.
C29_StoredRecordKept ==
    [][ /\ pc' = "add_paper_to_project"
        /\ ~IsNone(outcome')
        /\ argument'[2]["id"] \in DOMAIN papers
        => /\ papers'[argument'[2]["id"]]["tags"] = papers[argument'[2]["id"]]["tags"]
           /\ papers'[argument'[2]["id"]]["notes"] = papers[argument'[2]["id"]]["notes"]
      ]_vars

\* a name that project_manager.py rejects as empty
Blank(name) == \A i \in 1..Len(name) : name[i] \in Whitespace

\* C30: no two projects have names that are equal ignoring case and no
\* project has an empty or whitespace-only name; a create or rename that
\* is rejected raises ValueError and leaves the project list as it was.
C30_NamesStayUnique ==
    /\ [](\A i \in 1..Len(projects) :
            /\ ~Blank(projects[i].name)
            /\ \A j \in 1..Len(projects) :
                 i # j => Lower(projects[i].name) # Lower(projects[j].name))
    /\ [][ pc' \in {"create_project", "rename_project"} =>
             /\ Blank(IF pc' = "create_project" THEN argument' ELSE argument'[2])
                  => ~outcome'.ok
             /\ ~outcome'.ok => outcome'.type = ValueError /\ projects' = projects
         ]_vars

\* a project A exists and the creation of " a " has been rejected
C30_Witness ==
    /\ pc = "create_project"
    /\ argument = <<" ", "a", " ">>
    /\ outcome = Raise(ValueError, AlreadyExists(argument))
    /\ \E i \in 1..Len(projects) : projects[i].name = <<"A">>

(***************************************************************************)
(* Tags (src/core/tag_manager.py, src/core/paper_manager.py).  A tag is a  *)
(* sequence of characters, the tags of a paper a list of tags.             *)
(***************************************************************************)
MAX_TAG_LENGTH == 50

PAPER_NOT_FOUND == <<"Paper", " ", "not", " ", "found">>

INVALID_TAG == <<"Invalid", " ", "tag">>

EMPTY_TAG_NAMES == <<"Tag", " ", "names", " ", "cannot", " ", "be", " ", "empty">>

INVALID_NEW_TAG == <<"Invalid", " ", "new", " ", "tag", " ", "name">>

EMPTY_TAG_NAME == <<"Tag", " ", "name", " ", "cannot", " ", "be", " ", "empty">>

EMPTY_SOURCE_TARGET ==
    <<"Source", " ", "and", " ", "target", " ", "tags", " ", "cannot", " ", "be", " ", "empty">>

INVALID_TARGET_TAG == <<"Invalid", " ", "target", " ", "tag", " ", "name">>

PAPERS_NOT_FOUND == <<"One", " ", "or", " ", "both", " ", "papers", " ", "not", " ", "found">>

KEEP_NOT_ONE ==
    <<"Keep", " ", "paper", " ", "ID", " ", "must", " ", "be", " ", "one", " ", "of", " ",
      "the", " ", "two", " ", "papers">>

MERGED_FROM == <<"\n", "\n", "--- Merged from duplicate ---", "\n">>

\* the characters of [a-zA-Z0-9\s\-_]
TagCharacters ==
    Range(UpperCase) \cup Range(LowerCase) \cup Digits \cup Whitespace \cup {"-", "_"}

\* tag_manager.py lines 145-166
normalize_tag(tag) ==
    LET normalized == CollapseWhitespace(Lower(Strip(tag)))
    IN  IF tag = <<>>
        THEN <<>>
        ELSE IF normalized = <<>> \/ \E i \in 1..Len(normalized) : normalized[i] \notin TagCharacters
        THEN <<>>
        ELSE IF Len(normalized) > MAX_TAG_LENGTH
        THEN Strip(SubSeq(normalized, 1, MAX_TAG_LENGTH))
        ELSE normalized

\* normalize_tag that leaves the tag as it is
normalize_tag_Raw(tag) == tag

\* paper.get("tags", [])
tags_of(paper) == Get(paper, "tags", <<>>)

\* Storage.update_paper (storage.py lines 386-393) for a stored paper
update_paper(data, paper_id, updates) ==
    [data EXCEPT !.papers = update(data.papers, paper_id :>
                                update(update(data.papers[paper_id], updates),
                                       "modified" :> NOW))]

\* the papers of the dict in its order, the order in which they were added
paper_order(data) ==
    SelectSeq(<<DOI_A, DOI_B>>, LAMBDA paper_id : paper_id \in DOMAIN data.papers)

\* the loops of rename_tag, delete_tag and merge_tags after k papers: the
\* tags of every paper whose tags are Touched are replaced by the New ones
retag(data, Touched(_), New(_), k) ==
    [data EXCEPT !.papers =
        [paper_id \in DOMAIN data.papers |->
            IF /\ \E i \in 1..k : paper_order(data)[i] = paper_id
               /\ Touched(tags_of(data.papers[paper_id]))
            THEN update(update(data.papers[paper_id],
                               "tags" :> New(tags_of(data.papers[paper_id]))),
                        "modified" :> NOW)
            ELSE data.papers[paper_id]]]

\* the Call of such a loop: it returns updated_count, and update_paper has
\* saved the data after every paper it changed
retag_all(data, Touched(_), New(_)) ==
    Call(retag(data, Touched, New, Len(paper_order(data))),
         Return(Cardinality({paper_id \in DOMAIN data.papers :
                                Touched(tags_of(data.papers[paper_id]))})),
         {retag(data, Touched, New, k).papers :
            k \in {i \in 1..Len(paper_order(data)) :
                     Touched(tags_of(data.papers[paper_order(data)[i]]))}})

\* [new if t == old else t for t in tags]
Replaced(tags, old, new) == [i \in 1..Len(tags) |-> IF tags[i] = old THEN new ELSE tags[i]]

\* list(dict.fromkeys(tags)): the first occurrence of every tag
Deduplicated(tags) ==
    LET first == {i \in 1..Len(tags) : \A j \in 1..(i - 1) : tags[j] # tags[i]}
        place(k) == CHOOSE i \in first : Cardinality({j \in first : j < i}) = k - 1
    IN  [k \in 1..Cardinality(first) |-> tags[place(k)]]

\* tag_manager.py lines 39-56
TagManager_add_tag_to_paper(data, paper_id, tag) ==
    IF paper_id \notin DOMAIN data.papers
    THEN Call(data, Raise(ValueError, PAPER_NOT_FOUND), {})
    ELSE IF normalize_tag(tag) = <<>>
    THEN Call(data, Raise(ValueError, INVALID_TAG), {})
    ELSE IF normalize_tag(tag) \in Range(tags_of(data.papers[paper_id]))
    THEN Call(data, Return(data.papers[paper_id]), {})
    ELSE LET left == update_paper(data, paper_id,
                        "tags" :> Append(tags_of(data.papers[paper_id]), normalize_tag(tag)))
         IN  Call(left, Return(left.papers[paper_id]), {left.papers})

\* tag_manager.py lines 58-69 and paper_manager.py lines 149-160
remove_tag_from_paper(data, paper_id, tag) ==
    IF paper_id \notin DOMAIN data.papers
    THEN Call(data, Raise(ValueError, PAPER_NOT_FOUND), {})
    ELSE IF tag \notin Range(tags_of(data.papers[paper_id]))
    THEN Call(data, Return(data.papers[paper_id]), {})
    ELSE LET left == update_paper(data, paper_id,
                        "tags" :> Remove(tags_of(data.papers[paper_id]), tag))
         IN  Call(left, Return(left.papers[paper_id]), {left.papers})

\* tag_manager.py lines 71-97; None is returned when nothing is to change
rename_tag(data, old_tag, new_tag) ==
    IF old_tag = <<>> \/ new_tag = <<>>
    THEN Call(data, Raise(ValueError, EMPTY_TAG_NAMES), {})
    ELSE IF normalize_tag(new_tag) = <<>>
    THEN Call(data, Raise(ValueError, INVALID_NEW_TAG), {})
    ELSE IF old_tag = normalize_tag(new_tag)
    THEN Call(data, ReturnNone, {})
    ELSE retag_all(data, LAMBDA tags : old_tag \in Range(tags),
                   LAMBDA tags : Deduplicated(Replaced(tags, old_tag, normalize_tag(new_tag))))

\* tag_manager.py lines 99-115
delete_tag(data, tag) ==
    IF tag = <<>>
    THEN Call(data, Raise(ValueError, EMPTY_TAG_NAME), {})
    ELSE retag_all(data, LAMBDA tags : tag \in Range(tags), LAMBDA tags : Remove(tags, tag))

\* tag_manager.py lines 117-143
merge_tags(data, source_tags, target_tag) ==
    IF source_tags = <<>> \/ target_tag = <<>>
    THEN Call(data, Raise(ValueError, EMPTY_SOURCE_TARGET), {})
    ELSE IF normalize_tag(target_tag) = <<>>
    THEN Call(data, Raise(ValueError, INVALID_TARGET_TAG), {})
    ELSE retag_all(data,
            LAMBDA tags : Range(tags) \cap Range(source_tags) # {},
            LAMBDA tags :
                LET new_tags == SelectSeq(tags, LAMBDA tag : tag \notin Range(source_tags))
                IN  IF normalize_tag(target_tag) \in Range(new_tags)
                    THEN new_tags
                    ELSE Append(new_tags, normalize_tag(target_tag)))

\* paper_manager.py lines 136-147: the tag is appended as it is given
PaperManager_add_tag_to_paper(data, paper_id, tag) ==
    IF paper_id \notin DOMAIN data.papers
    THEN Call(data, Raise(ValueError, PAPER_NOT_FOUND), {})
    ELSE IF tag \in Range(tags_of(data.papers[paper_id]))
    THEN Call(data, Return(data.papers[paper_id]), {})
    ELSE LET left == update_paper(data, paper_id,
                        "tags" :> Append(tags_of(data.papers[paper_id]), tag))
         IN  Call(left, Return(left.papers[paper_id]), {left.papers})

\* the lists that list(a set) can be: the elements in any order
Orders(S) ==
    {list \in [1..Cardinality(S) -> S] : \A i, j \in 1..Cardinality(S) : list[i] = list[j] => i = j}

\* paper_manager.py lines 219-221: the lists merged_tags can be
merged_tag_lists(data, paper1_id, paper2_id) ==
    IF paper1_id \in DOMAIN data.papers /\ paper2_id \in DOMAIN data.papers
    THEN Orders(Range(tags_of(data.papers[paper1_id]))
                    \cup Range(tags_of(data.papers[paper2_id])))
    ELSE {<<>>}

\* paper_manager.py lines 206-243, with the list that list(set) gave
merge_duplicate_papers(data, paper1_id, paper2_id, keep_paper_id, merged_tags) ==
    IF paper1_id \notin DOMAIN data.papers \/ paper2_id \notin DOMAIN data.papers
    THEN Call(data, Raise(ValueError, PAPERS_NOT_FOUND), {})
    ELSE IF keep_paper_id \notin {paper1_id, paper2_id}
    THEN Call(data, Raise(ValueError, KEEP_NOT_ONE), {})
    ELSE LET remove_paper_id == IF keep_paper_id = paper1_id THEN paper2_id ELSE paper1_id
             keep_notes == Get(data.papers[keep_paper_id], "notes", <<>>)
             remove_notes == Get(data.papers[remove_paper_id], "notes", <<>>)
             merged_notes == IF remove_notes # <<>> /\ ~Contains(keep_notes, remove_notes)
                             THEN keep_notes \o MERGED_FROM \o remove_notes
                             ELSE keep_notes
             updated == update_paper(data, keep_paper_id,
                                     ("tags" :> merged_tags) @@ ("notes" :> Strip(merged_notes)))
         IN  Call(Storage_delete_paper(updated, remove_paper_id),
                  Return(updated.papers[keep_paper_id]),
                  {updated.papers, Storage_delete_paper(updated, remove_paper_id).papers})

\* tags on a paper when a tag is added
MaxTags == 2

\* tags the user types for the tag manager; tags handed to the paper
\* manager; tags named as the old or the source tags of an operation
TypedTags == { <<" ", "Y">>, <<>>, <<"!">> }

GivenTags == { <<"x">>, <<>> }

StoredTags == { <<"x">>, <<"y">>, <<>> }

SourceTagLists == { <<>>, << <<"x">> >>, << <<"x">>, <<"y">> >> }

\* a tag is added to a paper that is not stored or has fewer than MaxTags tags
Addable(paper_id) ==
    paper_id \in DOMAIN papers => Len(tags_of(papers[paper_id])) < MaxTags

TagAdd ==
    \E paper_id \in {DOI_A, DOI_B}, tag \in TypedTags :
      /\ Idle
      /\ Addable(paper_id)
      /\ Perform("TagManager.add_tag_to_paper", <<paper_id, tag>>,
                TagManager_add_tag_to_paper(Data(projects, papers), paper_id, tag))

TagRemove ==
    \E paper_id \in {DOI_A, DOI_B}, tag \in StoredTags :
      /\ Idle
      /\ Perform("remove_tag_from_paper", <<paper_id, tag>>,
                remove_tag_from_paper(Data(projects, papers), paper_id, tag))

TagRename ==
    \E old_tag \in StoredTags, new_tag \in TypedTags :
      /\ Idle
      /\ Perform("rename_tag", <<old_tag, new_tag>>,
                rename_tag(Data(projects, papers), old_tag, new_tag))

TagDelete ==
    \E tag \in StoredTags :
      /\ Idle
      /\ Perform("delete_tag", tag, delete_tag(Data(projects, papers), tag))

TagMerge ==
    \E source_tags \in SourceTagLists, target_tag \in TypedTags :
      /\ Idle
      /\ Perform("merge_tags", <<source_tags, target_tag>>,
                merge_tags(Data(projects, papers), source_tags, target_tag))

PaperAddTag ==
    \E paper_id \in {DOI_A, DOI_B}, tag \in GivenTags :
      /\ Idle
      /\ Addable(paper_id)
      /\ Perform("PaperManager.add_tag_to_paper", <<paper_id, tag>>,
                PaperManager_add_tag_to_paper(Data(projects, papers), paper_id, tag))

MergeDuplicatePapers ==
    \E paper1_id \in {DOI_A, DOI_B}, paper2_id \in {DOI_A, DOI_B},
       keep_paper_id \in {DOI_A, DOI_B} :
      \E merged_tags \in merged_tag_lists(Data(projects, papers), paper1_id, paper2_id) :
      /\ Idle
      /\ Perform("merge_duplicate_papers", <<paper1_id, paper2_id, keep_paper_id>>,
                merge_duplicate_papers(Data(projects, papers), paper1_id, paper2_id,
                                       keep_paper_id, merged_tags))

\* two papers without tags in the default project
InitTags ==
    /\ caller = "user"
    /\ pc = "Storage"
    /\ doi = <<>>
    /\ metadata = None
    /\ citations = EmptyDict
    /\ outcome = None
    /\ log = <<>>
    /\ doi_list = <<>>
    /\ index = 0
    /\ results = <<>>
    /\ faults = 0
    /\ papers = (DOI_A :> added_paper(converted_paper(DOI_A), None))
                    @@ (DOI_B :> added_paper(converted_paper(DOI_B), None))
    /\ database_file = papers
    /\ argument = None
    /\ projects = <<[Project(<<"project", "1">>, MY_PAPERS) EXCEPT !.papers = <<DOI_A, DOI_B>>]>>
    /\ signals = <<>>
    /\ dialog = "closed"
    /\ running = NoThreads
    /\ widget = InitialWidget

NextTags ==
    \/ TagAdd \/ TagRemove \/ TagRename \/ TagDelete \/ TagMerge
    \/ PaperAddTag \/ MergeDuplicatePapers

SpecTags == InitTags /\ [][NextTags]_vars

\* C22: after any sequence of tag operations, starting from papers with
\* empty tags, the tags of every stored paper hold no tag twice and no
\* empty string.
C22_TagsCleanAndUnique ==
    \A paper_id \in DOMAIN papers :
        /\ Cardinality(Range(tags_of(papers[paper_id]))) = Len(tags_of(papers[paper_id]))
        /\ <<>> \notin Range(tags_of(papers[paper_id]))

(***************************************************************************)
(* The batch worker (src/ui/doi_input.py): DOIConversionThread.run, which  *)
(* BatchConvertDialog.start_conversion has started with the valid DOIs of  *)
(* the dialog's text, and the dialog in the user interface thread.  The    *)
(* worker is the caller of convert_doi; signals holds what the worker and  *)
(* the dialog emit.  The message boxes of on_conversion_error are left     *)
(* out.                                                                    *)
(***************************************************************************)
Worker == "DOIConversionThread"

Signal(name, value) == [signal |-> name, value |-> value]

Emitted(name) == {i \in 1..Len(signals) : signals[i].signal = name}

\* lines 108-113: the next doi of doi_list, status_update is emitted and
\* convert_doi(doi) is called
RunCall ==
    /\ caller = Worker
    /\ pc = "run"
    /\ index < Len(doi_list)
    /\ index' = index + 1
    /\ doi' = doi_list[index + 1]
    /\ pc' = "convert_doi"
    /\ metadata' = None
    /\ citations' = EmptyDict
    /\ log' = <<>>
    /\ signals' = Append(signals, Signal("status_update", <<index + 1, Len(doi_list)>>))
    /\ UNCHANGED <<outcome, caller, doi_list, results, faults, dialog, running, widget>>
    /\ UNCHANGED store_vars

\* lines 114-115: results.append(paper_data), progress is emitted
RunAppend ==
    /\ caller = Worker
    /\ pc = "returned"
    /\ results' = Append(results, outcome.value)
    /\ signals' = Append(signals, Signal("progress", (index * 100) \div Len(doi_list)))
    /\ pc' = "run"
    /\ UNCHANGED <<doi, metadata, citations, outcome, log, caller, doi_list, index, faults>>
    /\ UNCHANGED <<dialog, running, widget>>
    /\ UNCHANGED store_vars

\* lines 117-119: error is emitted and the loop goes on with the next doi
RunExcept ==
    /\ caller = Worker
    /\ pc = "raised"
    /\ signals' = Append(signals, Signal("error", <<doi_list[index], outcome.msg>>))
    /\ pc' = "run"
    /\ UNCHANGED <<doi, metadata, citations, outcome, log, caller, doi_list, index, results,
                   faults>>
    /\ UNCHANGED <<dialog, running, widget>>
    /\ UNCHANGED store_vars

\* line 121: self.finished.emit({"papers": results})
RunFinished ==
    /\ caller = Worker
    /\ pc = "run"
    /\ index = Len(doi_list)
    /\ signals' = Append(signals, Signal("finished", "papers" :> results))
    /\ pc' = "run_finished"
    /\ UNCHANGED <<doi, metadata, citations, outcome, log, caller, doi_list, index, results,
                   faults>>
    /\ UNCHANGED <<dialog, running, widget>>
    /\ UNCHANGED store_vars

\* line 188: the Cancel button is connected to QDialog.reject, which closes
\* the dialog and emits rejected
Cancel ==
    /\ caller = Worker
    /\ dialog = "converting"
    /\ dialog' = "closed"
    /\ signals' = Append(signals, Signal("rejected", None))
    /\ UNCHANGED <<pc, doi, metadata, citations, outcome, log, caller, doi_list, index,
                   results, faults, running, widget>>
    /\ UNCHANGED store_vars

\* lines 251-254, the slot of finished: batch_completed is emitted and the
\* dialog accepted
OnConversionFinished ==
    /\ caller = Worker
    /\ pc = "run_finished"
    /\ pc' = "on_conversion_finished"
    /\ signals' = Append(signals, Signal("batch_completed", results))
    /\ dialog' = "closed"
    /\ UNCHANGED <<doi, metadata, citations, outcome, log, caller, doi_list, index, results,
                   faults, running, widget>>
    /\ UNCHANGED store_vars

\* the DOIs of valid_dois (lines 206-236): they have passed is_valid_doi_format
WorkerDois == {DOI_A, DOI_B}

InitWorker ==
    /\ caller = Worker
    /\ pc = "run"
    /\ doi = <<>>
    /\ metadata = None
    /\ citations = EmptyDict
    /\ outcome = None
    /\ log = <<>>
    /\ doi_list \in SeqsUpTo(WorkerDois, MaxBatch) \ {<<>>}
    /\ index = 0
    /\ results = <<>>
    /\ faults = 0
    /\ papers = EmptyDict
    /\ database_file = EmptyDict
    /\ argument = None
    /\ projects = <<>>
    /\ signals = <<>>
    /\ dialog = "converting"
    /\ running = [single |-> 0, batch |-> 1]
    /\ widget = InitialWidget

NextWorker ==
    \/ Clean \/ Primary \/ Fallback \/ Citations
    \/ RunCall \/ RunAppend \/ RunExcept \/ RunFinished
    \/ Cancel \/ OnConversionFinished

SpecWorker == InitWorker /\ [][NextWorker]_vars

(***************************************************************************)
(* Properties of the batch worker (SpecWorker).                            *)
(***************************************************************************)
\* C24: once the batch conversion is cancelled, the worker starts the
\* conversion of no further DOI of its list.
C24_NoDoiStartedAfterCancel ==
    [][ caller = Worker /\ Emitted("rejected") # {} => index' = index ]_vars

\* C26: DOIConversionThread.run emits finished exactly once, and its
\* payload holds one record for every submitted DOI, an error marker for a
\* DOI whose conversion failed.
C26_OneRecordPerDoi ==
    caller = Worker /\ pc = "run_finished" =>
        /\ Cardinality(Emitted("finished")) = 1
        /\ Len(signals[Len(signals)].value["papers"]) = Len(doi_list)

(***************************************************************************)
(* The conversion threads of the user interface (src/ui/doi_input.py,      *)
(* src/ui/main_window.py).  A thread is an object that has been started    *)
(* and has not ended; what it converts is SpecWorker's subject.  running   *)
(* counts the threads, widget is the DOIInputWidget, dialog the modal      *)
(* BatchConvertDialog and signals the signals the widget emits.            *)
(***************************************************************************)
\* threads that have been started and have not ended
MaxThreads == 2
\* signals emitted by the widget
MaxEmitted == 2

EventLoop == "exec"

Aborted == "aborted"

Threads == running.single + running.batch

\* the texts of the input line, of the clipboard and of the dialog's lines
Texts == { <<>>, DOI_A, <<"x">>, <<" ", " ">> }

\* lines 349-350 (also 371-372, 214-215, 465-466):
\* extracted_doi and is_valid_doi_format(extracted_doi)
valid_doi_found(text) ==
    LET extracted_doi == extract_doi_from_input(text)
    IN  /\ extracted_doi.ok
        /\ ~IsNone(extracted_doi)
        /\ extracted_doi.value # <<>>
        /\ is_valid_doi_format(extracted_doi.value)

\* valid_doi_found on the texts of the model, computed once
TextsWithDoi == {text \in Texts : valid_doi_found(text)}

found(text) == text \in TextsWithDoi

\* validate_input, the slot of textChanged: the Convert button is enabled
\* for an empty text and for a text with a valid DOI, disabled otherwise
validate_input(w, text) ==
    IF text = <<>> \/ found(text)
    THEN [w EXCEPT !.enabled = @ \cup {"convert_btn"}]
    ELSE [w EXCEPT !.enabled = @ \ {"convert_btn"}]

\* QLineEdit.setText, typing and clear: textChanged is emitted when the
\* text changes
setText(w, text) ==
    IF text = w.text THEN w ELSE validate_input([w EXCEPT !.text = text], text)

\* reset_ui_state
reset_ui_state(w) == [w EXCEPT !.enabled = {"convert_btn", "batch_btn", "doi_input"}]

\* convert_doi on the widget w: nothing for an empty text, a warning for a
\* text without a DOI; otherwise the controls are disabled and a new
\* SingleDOIConversionThread is started, whatever thread is running
convert_doi(w) ==
    IF Strip(w.text) # <<>> /\ found(Strip(w.text))
    THEN /\ widget' = [w EXCEPT !.enabled = {}]
         /\ running' = [running EXCEPT !.single = @ + 1]
    ELSE /\ widget' = w
         /\ running' = running

\* the variables of the conversion and of the store, which the user
\* interface model leaves alone
AtWidgets ==
    /\ caller = "user"
    /\ pc = EventLoop
    /\ UNCHANGED <<pc, doi, metadata, citations, outcome, log, caller, doi_list, index,
                   results, faults>>
    /\ UNCHANGED store_vars

\* the main window takes input: the modal dialog is not shown
MainWindowActive == dialog = "closed"

\* the user edits the input line
TypeText ==
    /\ AtWidgets
    /\ MainWindowActive
    /\ "doi_input" \in widget.enabled
    /\ \E text \in Texts : widget' = setText(widget, text)
    /\ UNCHANGED <<signals, dialog, running>>

\* convert_btn.clicked (line 335)
ConvertButton ==
    /\ AtWidgets
    /\ MainWindowActive
    /\ "convert_btn" \in widget.enabled
    /\ Threads < MaxThreads
    /\ convert_doi(widget)
    /\ UNCHANGED <<signals, dialog>>

\* doi_input.returnPressed (line 334)
ReturnKey ==
    /\ AtWidgets
    /\ MainWindowActive
    /\ "doi_input" \in widget.enabled
    /\ Threads < MaxThreads
    /\ convert_doi(widget)
    /\ UNCHANGED <<signals, dialog>>

\* the shortcut and Edit > Paste DOI and Convert (main_window.py 132-136,
\* 160-167, 269-271) call paste_and_convert, which looks at no control and
\* at no thread
PasteShortcut ==
    /\ AtWidgets
    /\ MainWindowActive
    /\ Threads < MaxThreads
    /\ \E clipboard \in Texts :
           LET text == Strip(clipboard)
           IN  IF text # <<>> /\ found(text)
               THEN convert_doi(setText(widget, text))
               ELSE UNCHANGED <<widget, running>>
    /\ UNCHANGED <<signals, dialog>>

\* batch_btn.clicked (line 336): show_batch_dialog
BatchButton ==
    /\ AtWidgets
    /\ MainWindowActive
    /\ "batch_btn" \in widget.enabled
    /\ dialog' = "open"
    /\ UNCHANGED <<signals, running, widget>>

\* Tools > Batch Convert DOIs (main_window.py 149-151, 261-263): the action
\* is never disabled
ToolsBatchConvert ==
    /\ AtWidgets
    /\ MainWindowActive
    /\ dialog' = "open"
    /\ UNCHANGED <<signals, running, widget>>

\* the dialog's Convert button: start_conversion on the lines of the text
\* box; reply is the answer to the question about invalid lines
DialogConvert ==
    /\ AtWidgets
    /\ dialog = "open"
    /\ Threads < MaxThreads
    /\ \E lines \in SeqsUpTo(Texts \ {<<>>, <<" ", " ">>}, 2), reply \in BOOLEAN :
           LET valid_dois == SelectSeq(lines, found)
           IN  IF \/ lines = <<>>
                  \/ Len(valid_dois) < Len(lines) /\ ~reply
                  \/ valid_dois = <<>>
               THEN UNCHANGED <<dialog, running>>
               ELSE /\ dialog' = "converting"
                    /\ running' = [running EXCEPT !.batch = @ + 1]
    /\ UNCHANGED <<signals, widget>>

\* the dialog's Cancel button (line 188): reject closes the dialog; its
\* thread is left alone
DialogCancel ==
    /\ AtWidgets
    /\ dialog \in {"open", "converting"}
    /\ dialog' = "closed"
    /\ UNCHANGED <<signals, running, widget>>

\* the threads of dialogs that were closed by Cancel
Orphans == running.batch - (IF dialog = "converting" THEN 1 ELSE 0)

\* the thread of the dialog shown ends: on_conversion_finished emits
\* batch_completed, which the widget forwards as batch_converted (line 452),
\* and accepts the dialog
BatchFinished ==
    /\ AtWidgets
    /\ dialog = "converting"
    /\ Len(signals) < MaxEmitted
    /\ running' = [running EXCEPT !.batch = @ - 1]
    /\ signals' = Append(signals, Signal("batch_converted", <<>>))
    /\ dialog' = "closed"
    /\ UNCHANGED widget

\* the thread of a cancelled dialog ends: the same slot, on a dialog that
\* is closed already
OrphanFinished ==
    /\ AtWidgets
    /\ Orphans > 0
    /\ Len(signals) < MaxEmitted
    /\ running' = [running EXCEPT !.batch = @ - 1]
    /\ signals' = Append(signals, Signal("batch_converted", <<>>))
    /\ UNCHANGED <<dialog, widget>>

\* a SingleDOIConversionThread emits finished: on_single_conversion_finished
\* resets the controls, emits doi_converted and starts the timer that
\* clears the input line
SingleFinished ==
    /\ AtWidgets
    /\ running.single > 0
    /\ Len(signals) < MaxEmitted
    /\ running' = [running EXCEPT !.single = @ - 1]
    /\ widget' = [reset_ui_state(widget) EXCEPT !.timers = @ + 1]
    /\ signals' = Append(signals, Signal("doi_converted", <<>>))
    /\ UNCHANGED dialog

\* a SingleDOIConversionThread emits error: on_single_conversion_error
\* resets the controls and shows the message
SingleError ==
    /\ AtWidgets
    /\ running.single > 0
    /\ running' = [running EXCEPT !.single = @ - 1]
    /\ widget' = reset_ui_state(widget)
    /\ UNCHANGED <<signals, dialog>>

\* QTimer.singleShot(2000, ...) of on_single_conversion_finished fires:
\* doi_input.clear()
TimerFires ==
    /\ AtWidgets
    /\ widget.timers > 0
    /\ widget' = [setText(widget, <<>>) EXCEPT !.timers = @ - 1]
    /\ UNCHANGED <<signals, dialog, running>>

\* line 396 has dropped the only reference of the widget to a thread that
\* was still running: when its run() returns, the QThread object may be
\* destroyed before the thread has ended, which aborts the process
\* ("QThread: Destroyed while thread is still running"), or it ends as any
\* other thread (SingleFinished, SingleError)
DestroyedWhileRunning ==
    /\ caller = "user"
    /\ pc = EventLoop
    /\ running.single > 1
    /\ pc' = Aborted
    /\ running' = NoThreads
    /\ UNCHANGED <<doi, metadata, citations, outcome, log, caller, doi_list, index,
                   results, faults, signals, dialog, widget>>
    /\ UNCHANGED store_vars

InitUI ==
    /\ caller = "user"
    /\ pc = EventLoop
    /\ doi = <<>>
    /\ metadata = None
    /\ citations = EmptyDict
    /\ outcome = None
    /\ log = <<>>
    /\ doi_list = <<>>
    /\ index = 0
    /\ results = <<>>
    /\ faults = 0
    /\ papers = EmptyDict
    /\ database_file = EmptyDict
    /\ argument = None
    /\ Unused

NextUI ==
    \/ TypeText \/ ConvertButton \/ ReturnKey \/ PasteShortcut
    \/ BatchButton \/ ToolsBatchConvert \/ DialogConvert \/ DialogCancel
    \/ BatchFinished \/ OrphanFinished \/ SingleFinished \/ SingleError
    \/ TimerFires \/ DestroyedWhileRunning

SpecUI == InitUI /\ [][NextUI]_vars

(***************************************************************************)
(* Properties of the user interface (SpecUI).                              *)
(***************************************************************************)
\* C23: at any time at most one conversion thread, single or batch, is
\* running: a new one is started only after the previous one has ended.
C23_OneWorkerAtATime == running.single + running.batch <= 1

====
